---- MODULE Spec2Model ----
(***************************************************************************)
(* A model of image-zen: the ImageZen entry points (src/index.js), the     *)
(* Pipeline sequencer (src/utils/pipeline.js), the processors              *)
(* (src/processors/*.js) and the input validation                          *)
(* (src/utils/validation.js).                                              *)
(*                                                                         *)
(* JavaScript strings whose letter case matters are sequences of           *)
(* one-character strings, so that toLowerCase() is a real conversion.      *)
(* An optional argument is a sequence: <<>> when omitted, <<v>> when given.*)
(* The native codec (sharp) and the file system are external: each of      *)
(* their calls succeeds or throws, chosen nondeterministically.            *)
(***************************************************************************)
EXTENDS Integers, Sequences, FiniteSets, TLC

VARIABLES pc, call, stages, i, current, log, ret, models, bgModel, qIn, qOut,
          mpc, image, maskBuffer, composite, mret,
          bpc, batch, bi, results, progress,
          cpc, cmd, files, ck, result, written, spinner, exitCode,
          heap, ref, lastOp

vars == <<pc, call, stages, i, current, log, ret, models, bgModel, qIn, qOut,
          mpc, image, maskBuffer, composite, mret,
          bpc, batch, bi, results, progress,
          cpc, cmd, files, ck, result, written, spinner, exitCode,
          heap, ref, lastOp>>

\* the entry points and the pipeline
apiVars == <<pc, call, stages, i, current, log, ret, models, bgModel>>

\* the quality estimator
qVars == <<qIn, qOut>>

\* one background removal, with its mask
mVars == <<mpc, image, maskBuffer, composite, mret>>

\* one call of a batch helper
bVars == <<bpc, batch, bi, results, progress>>

\* one run of the command line
cVars == <<cpc, cmd, files, ck, result, written, spinner, exitCode>>

\* Pipeline objects a caller builds, clones and edits
pVars == <<heap, ref, lastOp>>

nonApiVars == <<qVars, mVars, bVars, cVars, pVars>>

nonQVars == <<apiVars, mVars, bVars, cVars, pVars>>

nonMaskVars == <<apiVars, qVars, bVars, cVars, pVars>>

nonBatchVars == <<apiVars, qVars, mVars, cVars, pVars>>

nonCliVars == <<apiVars, qVars, mVars, bVars, pVars>>

nonPipeVars == <<apiVars, qVars, mVars, bVars, cVars>>

(***************************************************************************)
(* Bounds                                                                  *)
(***************************************************************************)
MaxTasks == 3

MaxChannels == 2

(***************************************************************************)
(* Strings                                                                 *)
(***************************************************************************)
UpperAlphabet == <<"A","B","C","D","E","F","G","H","I","J","K","L","M","N","O","P","Q","R","S","T","U","V","W","X","Y","Z">>

LowerAlphabet == <<"a","b","c","d","e","f","g","h","i","j","k","l","m","n","o","p","q","r","s","t","u","v","w","x","y","z">>

LowerChar(c) ==
  IF \E k \in 1..26 : UpperAlphabet[k] = c
    THEN LowerAlphabet[CHOOSE k \in 1..26 : UpperAlphabet[k] = c]
    ELSE c

\* the string as it is, letter case kept
ToLowerCaseKept(s) == s

ToLowerCase(s) == [k \in 1..Len(s) |-> LowerChar(s[k])]

S_jpg == <<"j","p","g">>

S_jpeg == <<"j","p","e","g">>

S_png == <<"p","n","g">>

S_webp == <<"w","e","b","p">>

S_tiff == <<"t","i","f","f">>

S_bmp == <<"b","m","p">>

S_avif == <<"a","v","i","f">>

S_mozjpeg == <<"m","o","z","j","p","e","g">>

S_oxipng == <<"o","x","i","p","n","g">>

supportedFormats ==
  [input  |-> <<S_jpg, S_jpeg, S_png, S_webp, S_tiff, S_bmp>>,
   output |-> <<S_jpg, S_jpeg, S_png, S_webp, S_avif>>]

Includes(seq, x) == \E k \in 1..Len(seq) : seq[k] = x

(***************************************************************************)
(* Errors: the message template, its interpolated argument, the cause.     *)
(***************************************************************************)
NoErr == [msg |-> "", arg |-> <<>>]

Err(m, a) == [msg |-> m, arg |-> a]

Wrap(m, a, cause) == [msg |-> m, arg |-> a, cause |-> cause]

(***************************************************************************)
(* Inputs: what a caller may hand to an entry point.                       *)
(***************************************************************************)
Inputs ==
  { [kind |-> "null",   len |-> 0, exists |-> FALSE, ext |-> <<>>, readable |-> FALSE],
    [kind |-> "string", len |-> 0, exists |-> FALSE, ext |-> <<>>, readable |-> FALSE],
    [kind |-> "buffer", len |-> 0, exists |-> FALSE, ext |-> <<>>, readable |-> FALSE],
    [kind |-> "buffer", len |-> 4, exists |-> FALSE, ext |-> <<>>, readable |-> FALSE],
    [kind |-> "number", len |-> 0, exists |-> FALSE, ext |-> <<>>, readable |-> FALSE],
    [kind |-> "string", len |-> 8, exists |-> FALSE, ext |-> S_jpg, readable |-> FALSE],
    [kind |-> "string", len |-> 8, exists |-> FALSE, ext |-> <<"t","x","t">>, readable |-> FALSE],
    [kind |-> "string", len |-> 8, exists |-> TRUE, ext |-> <<"t","x","t">>, readable |-> TRUE],
    [kind |-> "string", len |-> 8, exists |-> TRUE, ext |-> <<"t","x","t">>, readable |-> FALSE],
    [kind |-> "string", len |-> 8, exists |-> TRUE, ext |-> <<"J","P","G">>, readable |-> FALSE],
    [kind |-> "string", len |-> 8, exists |-> TRUE, ext |-> <<"P","n","g">>, readable |-> TRUE] }

\* !input : null, undefined and the empty string are falsy (a number input is 123)
Falsy(input) == input.kind = "null" \/ (input.kind = "string" /\ input.len = 0)

\* the file is opened for reading before its extension is looked at
validateInputReadFirst(input) ==
  IF Falsy(input) THEN Err("Input is required", <<>>)
  ELSE IF input.kind = "buffer"
    THEN (IF input.len = 0 THEN Err("Input buffer is empty", <<>>) ELSE NoErr)
  ELSE IF input.kind # "string"
    THEN Err("Input must be a file path (string) or Buffer", <<>>)
  ELSE IF ~input.exists THEN Err("Input file does not exist", input.ext)
  ELSE IF ~input.readable THEN Err("Cannot read input file", input.ext)
  ELSE IF ~Includes(supportedFormats.input, ToLowerCase(input.ext))
    THEN Err("Unsupported input format", ToLowerCase(input.ext))
  ELSE NoErr

validateInput(input) ==
  IF Falsy(input) THEN Err("Input is required", <<>>)
  ELSE IF input.kind = "buffer"
    THEN (IF input.len = 0 THEN Err("Input buffer is empty", <<>>) ELSE NoErr)
  ELSE IF input.kind # "string"
    THEN Err("Input must be a file path (string) or Buffer", <<>>)
  ELSE IF ~input.exists THEN Err("Input file does not exist", input.ext)
  ELSE IF ~Includes(supportedFormats.input, ToLowerCase(input.ext))
    THEN Err("Unsupported input format", ToLowerCase(input.ext))
  ELSE IF ~input.readable THEN Err("Cannot read input file", input.ext)
  ELSE NoErr

validateQuality(quality) ==
  IF quality < 1 \/ quality > 100 THEN Err("Quality must be between 1 and 100", <<>>)
  ELSE NoErr

validateScale(scale) ==
  IF ~Includes(<<2, 4>>, scale) THEN Err("Scale must be 2 or 4", <<>>) ELSE NoErr

ValidInputs == { x \in Inputs : validateInput(x) = NoErr }

\* The value travelling through a pipeline: the caller's input and the
\* processor calls applied to it so far.
Val(input) == [src |-> input, ops |-> <<>>]

Out(v, proc, args) == [src |-> v.src, ops |-> Append(v.ops, [proc |-> proc, args |-> args])]

(***************************************************************************)
(* Optional arguments                                                      *)
(***************************************************************************)
\* a default parameter value (x = d): only an omitted argument takes it
DefaultParam(a, d) == IF a = <<>> THEN d ELSE a[1]

\* a || d : an omitted argument and a falsy one (0) take the default
OrDefault(a, d) == IF a = <<>> \/ a[1] = 0 THEN d ELSE a[1]

ScaleArgs == { <<>>, <<0>>, <<2>>, <<4>>, <<8>> }

OutputArgs == { <<>>, <<"out.webp">> }

\* the output of an enhance config: omitted, a path, the empty string
EnhanceOutputs == OutputArgs \cup { <<"">> }

\* if (output): an omitted output and the empty string are falsy
Truthy(a) == a # <<>> /\ a[1] # ""

NoOptions == [quality |-> <<>>, format |-> <<>>]

Options(q, f) == [quality |-> <<q>>, format |-> <<f>>]

(***************************************************************************)
(* Events of one call, in the order they happen.                           *)
(***************************************************************************)
Ev(e, a) == [ev |-> e, arg |-> a]

\* what a processor call does: the events it causes, and its value or error
Ok(events, val) == [ok |-> TRUE, events |-> events, val |-> val]

Fail(events, err) == [ok |-> FALSE, events |-> events, err |-> err]

(***************************************************************************)
(* ImageUpscaler (src/processors/upscaler.js)                              *)
(***************************************************************************)
Availability == {"present", "absent", "throws"}

\* the descriptor follows what the availability check found
UpscalerDescriptorOnDisk(scale, avail) ==
  [scale |-> scale, tflite |-> avail = "present", fallback |-> avail # "present"]

\* every branch of loadModel caches and returns the same descriptor
UpscalerDescriptor(scale, avail) == [scale |-> scale, tflite |-> FALSE, fallback |-> TRUE]

UpscalerLoadModel(scale, cache, avail) ==
  IF \E m \in cache : m.scale = scale
    THEN [events |-> <<Ev("models.get", scale)>>, cache |-> cache]
    ELSE [events |-> <<Ev("isModelAvailable", scale), Ev("models.set", scale)>>,
          cache  |-> cache \cup {UpscalerDescriptor(scale, avail)}]

UpscalerScaleOkLoose(scale) == scale \in {2, 4, 8}

\* [2, 4].includes(scale)
UpscalerScaleOk(scale) == scale \in {2, 4}

processWithFallback(v, scale) ==
  { Fail(<<Ev("metadata", v)>>, Err("metadata failed", <<>>)),
    Fail(<<Ev("metadata", v), Ev("resize", scale)>>, Err("toBuffer failed", <<>>)),
    Ok(<<Ev("metadata", v), Ev("resize", scale)>>, Out(v, "upscale", <<scale>>)) }

\* ImageUpscaler.process(input, scale = 2, options) when the availability
\* check, if it is made, finds avail: the outcomes, each with the cache it
\* leaves
UpscalerProcessUnder(v, scale, cache, avail) ==
  IF ~UpscalerScaleOk(scale)
    THEN { [out |-> Fail(<<>>, Err("Upscaling scale must be 2 or 4", <<>>)), cache |-> cache] }
    ELSE LET lm == UpscalerLoadModel(scale, cache, avail)
         IN  { [out |-> (IF o.ok THEN Ok(lm.events \o o.events, o.val)
                                 ELSE Fail(lm.events \o o.events,
                                           Wrap("Upscaling failed", <<>>, o.err))),
                cache |-> lm.cache] :
               o \in processWithFallback(v, scale) }

UpscalerProcess(v, scale, cache) ==
  UNION { UpscalerProcessUnder(v, scale, cache, a) : a \in Availability }

(***************************************************************************)
(* BackgroundRemover (src/processors/background-remover.js)                *)
(*                                                                         *)
(* this.model is <<>> while it is null and <<descriptor>> once loadModel   *)
(* has set it.                                                             *)
(***************************************************************************)
NoModel == <<>>

\* this.model = { fallback: true } in every branch of loadModel
BackgroundDescriptor(avail) == [fallback |-> TRUE]

BackgroundLoadModel(model, avail) ==
  IF model # NoModel
    THEN [events |-> <<>>, model |-> model]
    ELSE [events |-> <<Ev("isModelAvailable", "background-removal")>>,
          model  |-> <<BackgroundDescriptor(avail)>>]

\* the result is encoded by .png(), which is given no options
fallbackBackgroundRemoval(v) ==
  { Fail(<<Ev("composite", v)>>,
         Wrap("Advanced background removal failed", <<>>, Err("toBuffer failed", <<>>))),
    Ok(<<Ev("composite", v)>>, Out(v, "removeBackground", <<"png", <<>>>>)) }

\* the options a caller may pass to removeBackground
BgOptions ==
  { <<>>, <<[quality |-> <<>>, format |-> <<>>]>>, <<[quality |-> <<>>, format |-> <<S_webp>>]>>,
    <<[quality |-> <<90>>, format |-> <<S_jpg>>]>> }

\* the encoder follows options.format when the caller names one
BackgroundProcessFormatted(v, options, model, avail) ==
  LET encoder == IF options.format = <<>> THEN "png" ELSE "webp"
      lm      == BackgroundLoadModel(model, avail)
  IN  { [out |-> Fail(lm.events \o <<Ev("metadata", v)>>,
                      Wrap("Background removal failed", <<>>, Err("metadata failed", <<>>))),
         loaded |-> lm.model],
        [out |-> Ok(lm.events \o <<Ev("metadata", v), Ev("composite", v)>>,
                    Out(v, "removeBackground", <<encoder, options.quality>>)),
         loaded |-> lm.model] }

\* BackgroundRemover.process(input, options = {}) when the availability
\* check, if it is made, finds avail: options are not read; each outcome
\* comes with the this.model it leaves
BackgroundProcessUnder(v, options, model, avail) ==
  LET lm == BackgroundLoadModel(model, avail)
  IN  { [out |-> Fail(lm.events \o <<Ev("metadata", v)>>,
                      Wrap("Background removal failed", <<>>, Err("metadata failed", <<>>))),
         loaded |-> lm.model] }
      \cup
      { [out |-> (IF o.ok THEN Ok(lm.events \o <<Ev("metadata", v)>> \o o.events, o.val)
                          ELSE Fail(lm.events \o <<Ev("metadata", v)>> \o o.events,
                                    Wrap("Background removal failed", <<>>, o.err))),
         loaded |-> lm.model] :
        o \in fallbackBackgroundRemoval(v) }

BackgroundProcess(v, options, model) ==
  UNION { BackgroundProcessUnder(v, options, model, a) : a \in Availability }

(***************************************************************************)
(* ImageCompressor.process (src/processors/compressor.js)                  *)
(***************************************************************************)
\* a switch whose default branch encodes as webp
compressWithSharpLenient(v, format, quality) ==
  LET f == ToLowerCase(format)
      enc(codec, q) ==
        { Fail(<<Ev("encode", [codec |-> codec, quality |-> q])>>, Err("toBuffer failed", <<>>)),
          Ok(<<Ev("encode", [codec |-> codec, quality |-> q])>>,
             Out(v, "compress", <<codec, q>>)) }
  IN  IF f = S_avif THEN enc("avif", <<quality>>)
      ELSE IF f \in {S_mozjpeg, S_jpeg, S_jpg} THEN enc("jpeg", <<quality>>)
      ELSE IF f \in {S_oxipng, S_png} THEN enc("png", <<>>)
      ELSE enc("webp", <<quality>>)

\* the codec call compressWithSharp makes for a format, with the quality it
\* hands to the codec (png takes none)
compressWithSharp(v, format, quality) ==
  LET f == ToLowerCase(format)
      enc(codec, q) ==
        { Fail(<<Ev("encode", [codec |-> codec, quality |-> q])>>, Err("toBuffer failed", <<>>)),
          Ok(<<Ev("encode", [codec |-> codec, quality |-> q])>>,
             Out(v, "compress", <<codec, q>>)) }
  IN  IF f = S_webp THEN enc("webp", <<quality>>)
      ELSE IF f = S_avif THEN enc("avif", <<quality>>)
      ELSE IF f \in {S_mozjpeg, S_jpeg, S_jpg} THEN enc("jpeg", <<quality>>)
      ELSE IF f \in {S_oxipng, S_png} THEN enc("png", <<>>)
      ELSE { Fail(<<>>, Err("Unsupported compression format", format)) }

CompressorProcess(v, options) ==
  LET quality == DefaultParam(options.quality, 80)
      format  == DefaultParam(options.format, S_webp)
  IN  { IF o.ok THEN o ELSE Fail(o.events, Wrap("Compression failed", <<>>, o.err)) :
        o \in compressWithSharp(v, format, quality) }

(***************************************************************************)
(* Pipeline (src/utils/pipeline.js)                                        *)
(***************************************************************************)
\* the ...args of a stage: the scale the upscaler takes or the options the
\* compressor takes, each given or not
NoArgs == [scale |-> <<>>, options |-> <<>>]

ScaleArg(n) == [scale |-> <<n>>, options |-> <<>>]

OptionsArg(o) == [scale |-> <<>>, options |-> <<o>>]

\* Pipeline.add(name, processor, ...args): push the stage at the end
PipelineAddFront(st, name, processor, args) ==
  <<[name |-> name, processor |-> processor, args |-> args]>> \o st

PipelineAdd(st, name, processor, args) ==
  Append(st, [name |-> name, processor |-> processor, args |-> args])

\* the switch of a stage's execute closure: the names it dispatches
StageKnown(name) == name \in {"removeBackground", "upscale", "compress"}

\* processor.process(input, ...args) for the three processor objects
Process(processor, v, args, cache, loaded) ==
  IF processor = "upscaler"
    THEN { [out |-> r.out, cache |-> r.cache, loaded |-> loaded] :
           r \in UpscalerProcess(v, DefaultParam(args.scale, 2), cache) }
  ELSE IF processor = "backgroundRemover"
    THEN { [out |-> r.out, cache |-> cache, loaded |-> r.loaded] :
           r \in BackgroundProcess(v, DefaultParam(args.options, NoOptions), loaded) }
  ELSE { [out |-> o, cache |-> cache, loaded |-> loaded] :
         o \in CompressorProcess(v, DefaultParam(args.options, NoOptions)) }

(***************************************************************************)
(* ImageZen.enhance: the loop that turns the task list into stages         *)
(***************************************************************************)
TaskTags == {"remove-bg", "upscale", "compress", "sharpen"}

RECURSIVE SeqsUpTo(_, _)
SeqsUpTo(S, n) ==
  IF n = 0 THEN { <<>> }
  ELSE LET shorter == SeqsUpTo(S, n - 1)
       IN  shorter \cup { Append(q, x) : q \in shorter, x \in S }

\* every tag becomes a stage; an unknown one is left to the dispatch
RECURSIVE EnhanceAddTasksLazy(_, _, _, _)
EnhanceAddTasksLazy(tasks, k, st, options) ==
  IF k > Len(tasks) THEN [stages |-> st, err |-> NoErr]
  ELSE EnhanceAddTasksLazy(tasks, k + 1,
         PipelineAdd(st,
                     IF tasks[k] = "remove-bg" THEN "removeBackground" ELSE tasks[k],
                     IF tasks[k] = "remove-bg" THEN "backgroundRemover"
                     ELSE IF tasks[k] = "upscale" THEN "upscaler" ELSE "compressor",
                     IF tasks[k] = "upscale" THEN ScaleArg(OrDefault(options.scale, 2))
                     ELSE IF tasks[k] = "compress"
                       THEN OptionsArg(DefaultParam(options.compression, NoOptions))
                     ELSE NoArgs),
         options)

RECURSIVE EnhanceAddTasks(_, _, _, _)
EnhanceAddTasks(tasks, k, st, options) ==
  IF k > Len(tasks) THEN [stages |-> st, err |-> NoErr]
  ELSE IF tasks[k] = "remove-bg"
    THEN EnhanceAddTasks(tasks, k + 1,
           PipelineAdd(st, "removeBackground", "backgroundRemover", NoArgs), options)
  ELSE IF tasks[k] = "upscale"
    THEN EnhanceAddTasks(tasks, k + 1,
           PipelineAdd(st, "upscale", "upscaler", ScaleArg(OrDefault(options.scale, 2))), options)
  ELSE IF tasks[k] = "compress"
    THEN EnhanceAddTasks(tasks, k + 1,
           PipelineAdd(st, "compress", "compressor",
                       OptionsArg(DefaultParam(options.compression, NoOptions))), options)
  ELSE [stages |-> st, err |-> Err("Unknown task", tasks[k])]

EnhanceCompressions == { <<>>, <<Options(85, S_webp)>> }

\* what a caller may add to a Pipeline it builds itself
DirectStages ==
  { [name |-> "removeBackground", processor |-> "backgroundRemover", args |-> NoArgs],
    [name |-> "upscale", processor |-> "upscaler", args |-> ScaleArg(2)],
    [name |-> "compress", processor |-> "compressor", args |-> OptionsArg(NoOptions)],
    [name |-> "sepia", processor |-> "compressor", args |-> NoArgs] }

RECURSIVE AddAll(_, _, _)
AddAll(list, k, st) ==
  IF k > Len(list) THEN st
  ELSE AddAll(list, k + 1, PipelineAdd(st, list[k].name, list[k].processor, list[k].args))

(***************************************************************************)
(* State                                                                   *)
(***************************************************************************)
NoCall == [api |-> "none"]

NoRet == [kind |-> "none"]

NoInput == [kind |-> "none", len |-> 0, exists |-> FALSE, ext |-> <<>>, readable |-> FALSE]

NoVal == [src |-> NoInput, ops |-> <<>>]

qIdle == [state |-> "unused"]

ApiInit ==
  /\ pc = "idle"
  /\ call = NoCall
  /\ stages = <<>>
  /\ i = 0
  /\ current = NoVal
  /\ log = <<>>
  /\ ret = NoRet
  /\ models = {}
  /\ bgModel = NoModel

QIdle == qIn = qIdle /\ qOut = qIdle

\* no background removal, batch or command is running
NoImage == [width |-> 0, height |-> 0]

NoComposite == [image |-> NoImage, raw |-> [width |-> 0, height |-> 0, channels |-> 0]]

MaskIdle ==
  /\ mpc = "idle"
  /\ image = NoImage
  /\ maskBuffer = <<>>
  /\ composite = NoComposite
  /\ mret = NoRet

NoBatch == [helper |-> "none"]

BatchIdle ==
  /\ bpc = "idle"
  /\ batch = NoBatch
  /\ bi = 0
  /\ results = <<>>
  /\ progress = <<>>

NoCmd == [name |-> "none"]

CliIdle ==
  /\ cpc = "idle"
  /\ cmd = NoCmd
  /\ files = <<>>
  /\ ck = 0
  /\ result = NoVal
  /\ written = <<>>
  /\ spinner = <<>>
  /\ exitCode = <<>>

\* a caller has made one Pipeline, p: its stages array is empty; p2 is not
\* assigned yet
NoOp == [kind |-> "none", target |-> "", name |-> "", before |-> 0]

PipeIdle ==
  /\ heap = [a \in 1..2 |-> <<>>]
  /\ ref = [p |-> 1, p2 |-> 0]
  /\ lastOp = NoOp

Init == ApiInit /\ QIdle /\ MaskIdle /\ BatchIdle /\ CliIdle /\ PipeIdle

InitialCurrentUnset(input) == NoVal

\* let current = input
InitialCurrent(input) == Val(input)

Throw(err) ==
  /\ pc' = "failed"
  /\ ret' = [kind |-> "error", err |-> err]

(***************************************************************************)
(* ImageZen.enhance(input, config)  (index.js)                             *)
(***************************************************************************)
Enhance(input, tasks, scale, compression, output) ==
  /\ pc = "idle"
  /\ call' = [api |-> "enhance", input |-> input, tasks |-> tasks, scale |-> scale,
              compression |-> compression, output |-> output]
  /\ log' = <<>>
  /\ UNCHANGED <<models, bgModel, nonApiVars>>
  /\ IF validateInput(input) # NoErr
       THEN /\ Throw(validateInput(input))
            /\ UNCHANGED <<stages, i, current>>
       ELSE LET built == EnhanceAddTasks(tasks, 1, <<>>,
                           [scale |-> scale, compression |-> compression])
            IN  /\ stages' = built.stages
                /\ IF built.err # NoErr
                     THEN /\ Throw(built.err)
                          /\ UNCHANGED <<i, current>>
                     ELSE /\ pc' = "exec"
                          /\ i' = 1
                          /\ current' = InitialCurrent(input)
                          /\ UNCHANGED ret

\* new Pipeline().add(...)...execute(input) by a caller of the Pipeline class
PipelineExecute(list, input) ==
  /\ pc = "idle"
  /\ call' = [api |-> "pipeline", input |-> input, list |-> list, output |-> <<>>]
  /\ log' = <<>>
  /\ stages' = AddAll(list, 1, <<>>)
  /\ pc' = "exec"
  /\ i' = 1
  /\ current' = InitialCurrent(input)
  /\ UNCHANGED <<ret, models, bgModel, nonApiVars>>

\* the catch of Pipeline.execute: the error it throws for a failed stage
StageErrorBare(name, cause) == cause

StageError(name, cause) == Wrap("Pipeline failed at stage", name, cause)

\* Pipeline.execute, one loop iteration up to its await: stage i is
\* dispatched on the current value
StageStart ==
  /\ pc = "exec"
  /\ i <= Len(stages)
  /\ IF StageKnown(stages[i].name)
       THEN /\ pc' = "stage"
            /\ log' = Append(log, Ev("invoke", [stage |-> i, name |-> stages[i].name,
                                               input |-> current]))
            /\ UNCHANGED ret
       ELSE /\ Throw(StageError(stages[i].name, Err("Unknown stage", stages[i].name)))
            /\ UNCHANGED log
  /\ UNCHANGED <<call, stages, i, current, models, bgModel, nonApiVars>>

\* the awaited stage settles: its value becomes current, or its error is
\* rethrown with the stage's name
StageFinish ==
  /\ pc = "stage"
  /\ \E r \in Process(stages[i].processor, current, stages[i].args, models, bgModel) :
       /\ models' = r.cache
       /\ bgModel' = r.loaded
       /\ IF r.out.ok
            THEN /\ log' = log \o r.out.events \o
                           <<Ev("return", [stage |-> i, val |-> r.out.val])>>
                 /\ current' = r.out.val
                 /\ i' = i + 1
                 /\ pc' = "exec"
                 /\ UNCHANGED ret
            ELSE /\ log' = log \o r.out.events
                 /\ Throw(StageError(stages[i].name, r.out.err))
                 /\ UNCHANGED <<current, i>>
  /\ UNCHANGED <<call, stages, nonApiVars>>

\* the result is returned whatever output says
ExecuteReturnUnwritten ==
  /\ pc = "exec"
  /\ i > Len(stages)
  /\ pc' = "done"
  /\ ret' = [kind |-> "value", val |-> current]
  /\ UNCHANGED <<call, stages, i, current, log, models, bgModel, nonApiVars>>

\* Pipeline.execute returns current; enhance writes it when an output path
\* is configured
ExecuteReturn ==
  /\ pc = "exec"
  /\ i > Len(stages)
  /\ IF Truthy(call.output)
       THEN pc' = "write" /\ UNCHANGED ret
       ELSE pc' = "done" /\ ret' = [kind |-> "value", val |-> current]
  /\ UNCHANGED <<call, stages, i, current, log, models, bgModel, nonApiVars>>

WriteFinish ==
  /\ pc = "write"
  /\ \/ /\ log' = Append(log, Ev("writeFile", [path |-> call.output[1], data |-> current]))
        /\ pc' = "done"
        /\ ret' = [kind |-> "path", val |-> call.output[1]]
     \/ /\ Throw(Err("writeFile failed", call.output[1]))
        /\ UNCHANGED log
  /\ UNCHANGED <<call, stages, i, current, models, bgModel, nonApiVars>>

\* the caller has the result; the exported functions make a new ImageZen
\* for every call
Return ==
  /\ pc \in {"done", "failed"}
  /\ pc' = "idle"
  /\ call' = NoCall
  /\ stages' = <<>>
  /\ i' = 0
  /\ current' = NoVal
  /\ log' = <<>>
  /\ ret' = NoRet
  /\ models' = {}
  /\ bgModel' = NoModel
  /\ UNCHANGED nonApiVars

(***************************************************************************)
(* ImageZen.upscale / compress / removeBackground  (index.js)              *)
(***************************************************************************)
QualityArgs == { <<>>, <<0>>, <<1>>, <<80>>, <<100>>, <<101>> }

FormatArgs ==
  { <<>>, <<S_webp>>, <<S_avif>>, <<<<"J","p","e","g">>>>, <<S_jpeg>>, <<S_jpg>>, <<S_mozjpeg>>,
    <<<<"P","N","G">>>>, <<S_png>>, <<S_oxipng>>, <<S_tiff>>,
    <<<<"i","n","v","a","l","i","d">>>> }

\* { ...defaultOptions, ...options }
defaultOptions == Options(80, S_webp)

Merge(defaults, options) ==
  [quality |-> IF options.quality = <<>> THEN defaults.quality ELSE options.quality,
   format  |-> IF options.format = <<>> THEN defaults.format ELSE options.format]

\* the entry point hands its input to the processor as it is
SingleUnvalidated(api, input, callRec) ==
  /\ pc = "idle"
  /\ cpc = "idle"
  /\ call' = callRec
  /\ UNCHANGED <<stages, i, models, bgModel, nonApiVars>>
  /\ pc' = "proc"
  /\ current' = Val(input)
  /\ log' = <<Ev("invoke", [stage |-> 0, name |-> api, input |-> Val(input)])>>
  /\ UNCHANGED ret

Single(api, input, callRec) ==
  /\ pc = "idle"
  /\ cpc = "idle"
  /\ call' = callRec
  /\ UNCHANGED <<stages, i, models, bgModel, nonApiVars>>
  /\ IF validateInput(input) # NoErr
       THEN /\ Throw(validateInput(input))
            /\ log' = <<>>
            /\ UNCHANGED current
       ELSE /\ pc' = "proc"
            /\ current' = Val(input)
            /\ log' = <<Ev("invoke", [stage |-> 0, name |-> api, input |-> Val(input)])>>
            /\ UNCHANGED ret

Upscale(input, scale) ==
  Single("upscale", input,
         [api |-> "upscale", input |-> input, scale |-> scale, output |-> <<>>])

Compress(input, options) ==
  Single("compress", input,
         [api |-> "compress", input |-> input, options |-> options, output |-> <<>>])

RemoveBackground(input, options) ==
  Single("removeBackground", input,
         [api |-> "removeBackground", input |-> input, options |-> options, output |-> <<>>])

\* the processor call the entry point awaits
SingleProcess ==
  IF call.api = "upscale"
    THEN Process("upscaler", current, ScaleArg(DefaultParam(call.scale, 2)), models, bgModel)
  ELSE IF call.api = "compress"
    THEN Process("compressor", current, OptionsArg(Merge(defaultOptions, call.options)),
                 models, bgModel)
  ELSE Process("backgroundRemover", current,
               OptionsArg(DefaultParam(call.options, NoOptions)), models, bgModel)

ProcFinish ==
  /\ pc = "proc"
  /\ \E r \in SingleProcess :
       /\ models' = r.cache
       /\ bgModel' = r.loaded
       /\ log' = log \o r.out.events
       /\ IF r.out.ok
            THEN /\ pc' = "done"
                 /\ ret' = [kind |-> "value", val |-> r.out.val]
            ELSE Throw(r.out.err)
  /\ UNCHANGED <<call, stages, i, current, nonApiVars>>

(***************************************************************************)
(* The entry points that take an output path and return metadata:          *)
(* upscale(input, outputPath, options)                                     *)
(***************************************************************************)
UpscaleMeta(input, outputPath, scale) ==
  /\ pc = "idle"
  /\ cpc = "idle"
  /\ call' = [api |-> "upscaleMeta", input |-> input, scale |-> scale, output |-> outputPath]
  /\ log' = <<>>
  /\ UNCHANGED <<stages, i, models, bgModel, nonApiVars>>
  /\ IF validateInput(input) # NoErr
       THEN Throw(validateInput(input)) /\ UNCHANGED current
       ELSE IF ~UpscalerScaleOk(OrDefault(scale, 2))
         THEN Throw(Err("Upscaling scale must be 2 or 4", <<>>)) /\ UNCHANGED current
         ELSE pc' = "meta" /\ current' = Val(input) /\ UNCHANGED ret

\* what follows the scale check: stat of a path input, the metadata of the
\* input, the upscaler, the write, the metadata of the result
UpscaleMetaOutcomes(v, scale, outputPath, cache) ==
  LET pre == (IF v.src.kind = "string" THEN <<Ev("stat", v)>> ELSE <<>>)
      md  == pre \o <<Ev("metadata", v)>>
      wr(r) == (IF outputPath # <<>>
                  THEN <<Ev("writeFile", [path |-> outputPath[1], data |-> r.out.val])>>
                  ELSE <<>>)
  IN  (IF v.src.kind = "string"
         THEN { [out |-> Fail(<<>>, Err("stat failed", <<>>)), cache |-> cache] }
         ELSE {})
      \cup { [out |-> Fail(pre, Err("metadata failed", <<>>)), cache |-> cache] }
      \cup { [out |-> Fail(md \o r.out.events, r.out.err), cache |-> r.cache] :
             r \in { x \in UpscalerProcess(v, scale, cache) : ~x.out.ok } }
      \cup { [out |-> Fail(md \o r.out.events, Err("writeFile failed", outputPath)),
              cache |-> r.cache] :
             r \in { x \in UpscalerProcess(v, scale, cache) : x.out.ok /\ outputPath # <<>> } }
      \cup { [out |-> Fail(md \o r.out.events \o wr(r), Err("metadata failed", <<>>)),
              cache |-> r.cache] :
             r \in { x \in UpscalerProcess(v, scale, cache) : x.out.ok } }
      \cup { [out |-> Ok(md \o r.out.events \o wr(r) \o <<Ev("metadata", r.out.val)>>,
                         [buffer |-> r.out.val, scale |-> scale]),
              cache |-> r.cache] :
             r \in { x \in UpscalerProcess(v, scale, cache) : x.out.ok } }

UpscaleMetaFinish ==
  /\ pc = "meta"
  /\ \E r \in UpscaleMetaOutcomes(current, OrDefault(call.scale, 2), call.output, models) :
       /\ models' = r.cache
       /\ log' = log \o r.out.events
       /\ IF r.out.ok
            THEN /\ pc' = "done"
                 /\ ret' = [kind |-> "value", val |-> r.out.val]
            ELSE Throw(r.out.err)
  /\ UNCHANGED <<call, stages, i, current, bgModel, nonApiVars>>

(***************************************************************************)
(* enhance(input, outputPath, config), which returns metadata              *)
(*                                                                         *)
(* config is an object: its keys in the order the caller wrote them, each  *)
(* with a value that is an options object or a falsy value.                *)
(***************************************************************************)
ConfigEntry(key, truthy, scale, options) ==
  [key |-> key, truthy |-> truthy, scale |-> scale, options |-> options]

\* config[key] of a key that is not there
Undefined(key) == ConfigEntry(key, FALSE, <<>>, NoOptions)

ConfigValues ==
  { ConfigEntry("upscale", TRUE, <<>>, NoOptions),
    ConfigEntry("upscale", TRUE, <<8>>, NoOptions),
    ConfigEntry("upscale", FALSE, <<>>, NoOptions),
    ConfigEntry("removeBackground", TRUE, <<>>, NoOptions),
    ConfigEntry("removeBackground", FALSE, <<>>, NoOptions),
    ConfigEntry("compress", TRUE, <<>>, Options(85, S_webp)),
    ConfigEntry("compress", FALSE, <<>>, NoOptions) }

\* the objects a caller may pass: no key twice
Configs ==
  { c \in SeqsUpTo(ConfigValues, 3) :
      \A a, b \in 1..Len(c) : c[a].key = c[b].key => a = b }

\* config[key]
ConfigGet(config, key) ==
  IF \E k \in 1..Len(config) : config[k].key = key
    THEN config[CHOOSE k \in 1..Len(config) : config[k].key = key]
    ELSE Undefined(key)

\* the operations are taken in the order of the keys of config
EnhanceMetaOrderOfKeys(config) == [k \in 1..Len(config) |-> config[k].key]

\* the three if statements, in the order they are written
EnhanceMetaOrder(config) == <<"upscale", "removeBackground", "compress">>

\* the processor call of an operation: this.upscaler.process(result,
\* config.upscale.scale || 2, config.upscale), this.backgroundRemover.process(
\* result, config.removeBackground), this.compressor.process(result,
\* config.compress)
EnhanceMetaProcess(operation, value, v, cache, loaded) ==
  IF operation = "upscale"
    THEN Process("upscaler", v, ScaleArg(OrDefault(value.scale, 2)), cache, loaded)
  ELSE IF operation = "removeBackground"
    THEN Process("backgroundRemover", v, OptionsArg(value.options), cache, loaded)
  ELSE Process("compressor", v, OptionsArg(value.options), cache, loaded)

EnhanceMeta(input, outputPath, config) ==
  /\ pc = "idle"
  /\ cpc = "idle"
  /\ call' = [api |-> "enhanceMeta", input |-> input, output |-> outputPath,
              config |-> config]
  /\ log' = <<>>
  /\ UNCHANGED <<stages, models, bgModel, nonApiVars>>
  /\ IF validateInput(input) # NoErr
       THEN Throw(validateInput(input)) /\ UNCHANGED <<i, current>>
       ELSE pc' = "steps" /\ i' = 1 /\ current' = Val(input) /\ UNCHANGED ret

\* if (config.<operation>): a configured operation is started on result,
\* one that is not is passed over
EnhanceMetaStep ==
  /\ pc = "steps"
  /\ i <= Len(EnhanceMetaOrder(call.config))
  /\ LET operation == EnhanceMetaOrder(call.config)[i]
     IN  IF ConfigGet(call.config, operation).truthy
           THEN /\ pc' = "step"
                /\ log' = Append(log, Ev("invoke", [stage |-> i, name |-> operation,
                                                   input |-> current]))
                /\ UNCHANGED i
           ELSE /\ i' = i + 1
                /\ UNCHANGED <<pc, log>>
  /\ UNCHANGED <<call, stages, current, ret, models, bgModel, nonApiVars>>

\* the awaited operation settles: result = ...; steps.push({ operation,
\* duration, status: 'completed' }), or the call rejects with its error
EnhanceMetaStepFinish ==
  /\ pc = "step"
  /\ LET operation == EnhanceMetaOrder(call.config)[i]
     IN  \E r \in EnhanceMetaProcess(operation, ConfigGet(call.config, operation),
                                     current, models, bgModel) :
           /\ models' = r.cache
           /\ bgModel' = r.loaded
           /\ IF r.out.ok
                THEN /\ log' = log \o r.out.events \o
                               <<Ev("return", [stage |-> i, val |-> r.out.val]),
                                 Ev("push", [operation |-> operation, status |-> "completed"])>>
                     /\ current' = r.out.val
                     /\ i' = i + 1
                     /\ pc' = "steps"
                     /\ UNCHANGED ret
                ELSE /\ log' = log \o r.out.events
                     /\ Throw(r.out.err)
                     /\ UNCHANGED <<current, i>>
  /\ UNCHANGED <<call, stages, nonApiVars>>

\* steps, as the pushes made it
Steps(events) ==
  LET pushes == SelectSeq(events, LAMBDA e : e.ev = "push")
  IN  [k \in 1..Len(pushes) |-> pushes[k].arg]

\* after the three if statements: the write when outputPath is given, and
\* the metadata returned
EnhanceMetaFinish ==
  /\ pc = "steps"
  /\ i > Len(EnhanceMetaOrder(call.config))
  /\ LET done == /\ pc' = "done"
                 /\ ret' = [kind |-> "value",
                            val  |-> [steps |-> Steps(log), stepCount |-> Len(Steps(log)),
                                      buffer |-> current]]
     IN  IF Truthy(call.output)
           THEN \/ /\ log' = Append(log, Ev("writeFile", [path |-> call.output[1],
                                                         data |-> current]))
                   /\ done
                \/ /\ Throw(Err("writeFile failed", call.output[1]))
                   /\ UNCHANGED log
           ELSE done /\ UNCHANGED log
  /\ UNCHANGED <<call, stages, i, current, models, bgModel, nonApiVars>>

\* the caller's choice of arguments; a program that calls the entry points
\* is not the command line (cpc stays "idle")
EnhanceCall ==
  /\ pc = "idle"
  /\ cpc = "idle"
  /\ \E input \in Inputs, tasks \in SeqsUpTo(TaskTags, MaxTasks), scale \in ScaleArgs,
        compression \in EnhanceCompressions, output \in EnhanceOutputs :
       Enhance(input, tasks, scale, compression, output)

PipelineCall ==
  /\ pc = "idle"
  /\ cpc = "idle"
  /\ \E list \in SeqsUpTo(DirectStages, MaxTasks), input \in ValidInputs :
       PipelineExecute(list, input)

UpscaleCall == \E input \in Inputs, scale \in ScaleArgs : Upscale(input, scale)

CompressCall ==
  \E input \in Inputs, q \in QualityArgs, f \in FormatArgs :
    Compress(input, [quality |-> q, format |-> f])

RemoveBackgroundCall ==
  \E input \in Inputs, options \in BgOptions : RemoveBackground(input, options)

UpscaleMetaCall ==
  \E input \in Inputs, outputPath \in OutputArgs, scale \in ScaleArgs :
    UpscaleMeta(input, outputPath, scale)

EnhanceMetaCall ==
  \E input \in Inputs, outputPath \in OutputArgs, config \in Configs :
    EnhanceMeta(input, outputPath, config)

Next ==
  \/ EnhanceCall
  \/ PipelineCall
  \/ UpscaleCall
  \/ CompressCall
  \/ RemoveBackgroundCall
  \/ UpscaleMetaCall
  \/ StageStart
  \/ StageFinish
  \/ ExecuteReturn
  \/ WriteFinish
  \/ ProcFinish
  \/ UpscaleMetaFinish
  \/ EnhanceMetaCall
  \/ EnhanceMetaStep
  \/ EnhanceMetaStepFinish
  \/ EnhanceMetaFinish
  \/ Return

Spec == Init /\ [][Next]_vars

(***************************************************************************)
(* Properties of the pipeline and of the entry points                      *)
(***************************************************************************)
IsEvent(e, kind) == e.ev = kind

Invokes == SelectSeq(log, LAMBDA e : IsEvent(e, "invoke"))

Returns == SelectSeq(log, LAMBDA e : IsEvent(e, "return"))

Sequenced == call.api \in {"enhance", "pipeline"}

InputValid == validateInput(call.input) = NoErr

TaskStageName(task) ==
  IF task = "remove-bg" THEN "removeBackground" ELSE task

\* the stage names in the order the caller listed them
ListedNames ==
  IF call.api = "enhance"
    THEN [k \in 1..Len(call.tasks) |-> TaskStageName(call.tasks[k])]
    ELSE [k \in 1..Len(call.list) |-> call.list[k].name]

LastOutput == IF Returns = <<>> THEN Val(call.input) ELSE Returns[Len(Returns)].arg.val

\* C1: stages run in the order the caller listed them, stage k+1 is started
\* only after stage k has returned, the first stage receives the caller's
\* input, every later stage receives the output of the stage before it, and
\* execute returns the output of the last stage.
C1_StagesInOrder ==
  Sequenced =>
    /\ \A k \in 1..Len(Invokes) :
         /\ Invokes[k].arg.stage = k
         /\ k <= Len(ListedNames)
         /\ Invokes[k].arg.name = ListedNames[k]
         /\ Invokes[k].arg.input =
              (IF k = 1 THEN Val(call.input) ELSE Returns[k - 1].arg.val)
    /\ \A a, b \in 1..Len(log) :
         (a < b /\ log[a].ev = "invoke" /\ log[b].ev = "invoke") =>
           \E c \in (a + 1)..(b - 1) :
             log[c].ev = "return" /\ log[c].arg.stage = log[a].arg.stage
    /\ (pc \in {"write", "done"}) =>
         /\ Len(Returns) = Len(ListedNames)
         /\ current = LastOutput
    /\ (pc = "done" /\ ret.kind = "value") => ret.val = LastOutput
    /\ (pc = "done" /\ ret.kind = "path") =>
         log[Len(log)] = Ev("writeFile", [path |-> ret.val, data |-> LastOutput])

C1_Witness ==
  /\ call.api = "enhance"
  /\ pc = "done"
  /\ ret.kind = "value"
  /\ Len(Returns) = 3
  /\ ListedNames = <<"upscale", "removeBackground", "compress">>
  /\ ret.val = Returns[3].arg.val

\* C2: when stage k is the first stage whose processor throws, execute fails
\* with an error that names stage k and carries the cause, no later stage is
\* invoked, no stage is invoked twice, and no value is returned.
StageFailed == Sequenced /\ pc = "failed" /\ ret.err.msg = "Pipeline failed at stage"

C2_FailureLocality ==
  /\ StageFailed =>
       /\ i \in 1..Len(stages)
       /\ ret.kind = "error"
       /\ ret.err.arg = stages[i].name
       /\ ret.err.cause.msg # ""
       /\ Len(Returns) = i - 1
       /\ \A k \in 1..Len(Invokes) : Invokes[k].arg.stage <= i
       /\ \A a, b \in 1..Len(Invokes) :
            Invokes[a].arg.stage = Invokes[b].arg.stage => a = b
       /\ \A k \in 1..Len(log) : log[k].ev # "writeFile"
  /\ (Sequenced /\ pc \in {"exec", "write", "done"}) => Len(Invokes) = Len(Returns)
  /\ (Sequenced /\ pc = "stage") => Len(Invokes) = Len(Returns) + 1
  /\ (Sequenced /\ pc = "failed" /\ Len(Invokes) > Len(Returns)) => StageFailed

C2_Witness ==
  /\ StageFailed
  /\ Len(stages) = 3
  /\ i = 2
  /\ Len(Invokes) = 2
  /\ ret.err.arg = stages[2].name

\* C3 as stated: in enhance, an unknown task at position k is detected only
\* after the stages of entries 1..k-1 have been executed.
FirstUnknown(tasks) ==
  CHOOSE k \in 1..Len(tasks) :
    /\ tasks[k] \notin {"remove-bg", "upscale", "compress"}
    /\ \A j \in 1..(k - 1) : tasks[j] \in {"remove-bg", "upscale", "compress"}

HasUnknown(tasks) == \E k \in 1..Len(tasks) : tasks[k] \notin {"remove-bg", "upscale", "compress"}

EnhanceUnknown == call.api = "enhance" /\ InputValid /\ HasUnknown(call.tasks)

C3_Original ==
  (EnhanceUnknown /\ pc = "failed") =>
    /\ ret.err = Err("Unknown task", call.tasks[FirstUnknown(call.tasks)])
    /\ Len(Returns) = FirstUnknown(call.tasks) - 1

\* C3 amended: enhance detects an unknown task while it builds the pipeline:
\* the call fails with the unknown-task error naming the tag and no stage has
\* been executed. Only a Pipeline whose stage was added under an unrecognized
\* name detects it at dispatch: the stages before it have run, and the error
\* names the stage.
C3_UnknownTaskAtBuild ==
  /\ EnhanceUnknown =>
       /\ pc = "failed"
       /\ ret.err = Err("Unknown task", call.tasks[FirstUnknown(call.tasks)])
       /\ log = <<>>
  /\ (call.api = "pipeline" /\ \E k \in 1..Len(stages) : ~StageKnown(stages[k].name)) =>
       /\ pc # "done"
       /\ (StageFailed /\ ~StageKnown(stages[i].name)) =>
            /\ \A j \in 1..(i - 1) : StageKnown(stages[j].name)
            /\ Len(Returns) = i - 1
            /\ ret.err = StageError(stages[i].name, Err("Unknown stage", stages[i].name))

C3_Witness ==
  /\ EnhanceUnknown
  /\ FirstUnknown(call.tasks) = 3
  /\ pc = "failed"
  /\ ret.err.msg = "Unknown task"

\* C4: executing an empty stage list returns the input unchanged and invokes
\* no processor, for Pipeline.execute and for enhance without an output path.
C4_EmptyIsIdentity ==
  /\ (call.api = "pipeline" /\ call.list = <<>>) =>
       /\ pc \in {"exec", "done"}
       /\ log = <<>>
       /\ pc = "done" => ret = [kind |-> "value", val |-> Val(call.input)]
  /\ (call.api = "enhance" /\ InputValid /\ call.tasks = <<>> /\ call.output = <<>>) =>
       /\ pc \in {"exec", "done"}
       /\ log = <<>>
       /\ pc = "done" => ret = [kind |-> "value", val |-> Val(call.input)]

C4_Witness ==
  /\ call.api = "enhance"
  /\ call.tasks = <<>>
  /\ call.output = <<>>
  /\ pc = "done"
  /\ ret.val = Val(call.input)

\* C5 as stated: in enhance with an 'upscale' task and a scale that is not 2
\* or 4, the error is raised before any stage has processed the image.
BadScaleEnhance ==
  /\ call.api = "enhance"
  /\ InputValid
  /\ ~HasUnknown(call.tasks)
  /\ \E k \in 1..Len(call.tasks) : call.tasks[k] = "upscale"
  /\ validateScale(OrDefault(call.scale, 2)) # NoErr

C5_ScaleErrorBeforeProcessing ==
  BadScaleEnhance =>
    /\ pc # "done"
    /\ \A k \in 1..Len(log) : log[k].ev \notin {"return", "composite", "encode", "metadata"}

\* C6 as stated: compress with a quality outside 1..100 is rejected with the
\* quality validation error and the codec is never invoked with that quality.
BadQualityCompress ==
  /\ call.api = "compress"
  /\ InputValid
  /\ call.options.quality # <<>>
  /\ validateQuality(call.options.quality[1]) # NoErr

C6_QualityValidated ==
  BadQualityCompress =>
    /\ \A k \in 1..Len(log) : log[k].ev # "encode"
    /\ pc \in {"done", "failed"} =>
         (ret.kind = "error" /\ ret.err = validateQuality(call.options.quality[1]))

\* C7: upscale with a scale that is not 2 or 4 fails with the error that the
\* scale must be 2 or 4 before the model cache is touched, the metadata is
\* read or a resize is requested; with scale 2 or 4 that error is not raised.
UpscaleScale ==
  IF call.api = "upscale" THEN DefaultParam(call.scale, 2) ELSE OrDefault(call.scale, 2)

ScaleError == Err("Upscaling scale must be 2 or 4", <<>>)

C7_ScaleRejectedFirst ==
  (call.api \in {"upscale", "upscaleMeta"} /\ InputValid) =>
    /\ UpscaleScale \notin {2, 4} =>
         /\ pc \in {"proc", "failed"}
         /\ pc = "failed" => ret = [kind |-> "error", err |-> ScaleError]
         /\ models = {}
         /\ \A k \in 1..Len(log) :
              log[k].ev \notin {"models.get", "models.set", "isModelAvailable",
                                "metadata", "stat", "resize", "writeFile"}
    /\ UpscaleScale \in {2, 4} =>
         (pc = "failed" => ret.err # ScaleError)

C7_Witness ==
  /\ call.api = "upscale"
  /\ InputValid
  /\ call.scale = <<8>>
  /\ pc = "failed"
  /\ ret.err = ScaleError

(***************************************************************************)
(* ImageCompressor.getOptimalQuality (src/processors/compressor.js)        *)
(*                                                                         *)
(* Channel standard deviations are integers and the entropy is held in     *)
(* tenths, so the comparisons of the code are exact integer comparisons.   *)
(* baseQuality only ever takes integer values, which Math.round leaves as  *)
(* they are.                                                               *)
(***************************************************************************)
RECURSIVE Sum(_)
Sum(seq) == IF seq = <<>> THEN 0 ELSE seq[1] + Sum(Tail(seq))

Max(a, b) == IF a > b THEN a ELSE b

Min(a, b) == IF a < b THEN a ELSE b

\* colorVariance > 25
isPhotographicByVariance(stats) == Sum(stats.channels) > 25 * Len(stats.channels)

\* colorVariance > 25 && entropy > 6
isPhotographic(stats) ==
  /\ Sum(stats.channels) > 25 * Len(stats.channels)
  /\ stats.entropy10 > 6 * 10

\* (avgStdev / 100) * 0.7 + (entropy / 8) * 0.3 clamped to 0..1, as the
\* numerator of a fraction over ComplexityDen(stats)
ComplexityDen(stats) == 8000 * Len(stats.channels)

calculateComplexity(stats) ==
  Min(ComplexityDen(stats),
      Max(0, 56 * Sum(stats.channels) + 30 * stats.entropy10 * Len(stats.channels)))

\* complexity > 0.8 and complexity < 0.3 on that fraction
HighComplexity(stats) == 10 * calculateComplexity(stats) > 8 * ComplexityDen(stats)

LowComplexity(stats) == 10 * calculateComplexity(stats) < 3 * ComplexityDen(stats)

LargeFile == 2 * 1024 * 1024

SmallFile == 100 * 1024

\* Math.max(50, Math.min(95, Math.round(baseQuality)))
NoClamp(q) == q

Clamp(q) == Max(50, Min(95, q))

\* metadata.size || (Buffer.isBuffer(input) ? input.length : (await fs.stat(input)).size)
NeedsStat(in) == ~in.metaHasSize /\ in.kind = "path"

\* baseQuality when the switch on the target format is reached
BaseBeforeFormat(in) ==
  LET stats == [channels |-> in.channels, entropy10 |-> in.entropy10]
      b1 == IF isPhotographic(stats) THEN 85 ELSE 92
      b2 == IF HighComplexity(stats) THEN b1 + 8
            ELSE IF LowComplexity(stats) THEN b1 - 12 ELSE b1
  IN  IF in.size > LargeFile THEN b2 - 5
      ELSE IF in.size < SmallFile THEN b2 + 5 ELSE b2

FormatAdjusted(in, base) ==
  LET f == ToLowerCase(DefaultParam(in.format, S_webp))
  IN  IF f = S_webp THEN base + 5
      ELSE IF f = S_avif THEN base + 10
      ELSE base

\* the try block: what it returns, or that it throws
getOptimalQualityTry(in) ==
  IF in.fails \in {"stats", "metadata"} \/ (in.fails = "stat" /\ NeedsStat(in))
    THEN [kind |-> "throw", value |-> 0]
  ELSE IF ToLowerCase(DefaultParam(in.format, S_webp)) \in {S_oxipng, S_png}
    THEN [kind |-> "return", value |-> IF in.hasAlpha THEN 100 ELSE 95]
  ELSE [kind |-> "return", value |-> Clamp(FormatAdjusted(in, BaseBeforeFormat(in)))]

getOptimalQualityNoCatch(in) == getOptimalQualityTry(in)

\* with the catch: the fallback quality
getOptimalQuality(in) ==
  IF getOptimalQualityTry(in).kind = "throw"
    THEN [kind |-> "return", value |-> 80]
    ELSE getOptimalQualityTry(in)

\* one iteration of compressBatch for a path whose quality option is not set
BatchFile == [kind |-> "string", len |-> 8, exists |-> TRUE, ext |-> S_png, readable |-> TRUE]

compressBatchItem(in, est, processed) ==
  IF est.kind = "throw"
    THEN [success |-> FALSE, error |-> Err("getOptimalQuality failed", <<>>), quality |-> 0]
  ELSE IF ~processed.ok
    THEN [success |-> FALSE, error |-> processed.err, quality |-> est.value]
  ELSE [success |-> TRUE, error |-> NoErr, quality |-> est.value]

(***************************************************************************)
(* The inputs of getOptimalQuality                                         *)
(***************************************************************************)
StdevValues == {0, 26, 130}

EntropyValues == {0, 61, 80}

SizeValues == {50 * 1024, 1024 * 1024, 3 * 1024 * 1024}

TargetFormats ==
  { <<>>, <<S_webp>>, <<S_avif>>, <<<<"J","P","E","G">>>>, <<S_jpg>>,
    <<<<"P","N","G">>>>, <<S_oxipng>>, <<S_tiff>> }

QInputs ==
  [channels : SeqsUpTo(StdevValues, MaxChannels) \ {<<>>},
   entropy10 : EntropyValues,
   hasAlpha : BOOLEAN,
   kind : {"buffer", "path"},
   metaHasSize : BOOLEAN,
   size : SizeValues,
   fails : {"none", "stats", "metadata", "stat"},
   format : TargetFormats]

QInit ==
  /\ ApiInit
  /\ MaskIdle
  /\ BatchIdle
  /\ CliIdle
  /\ PipeIdle
  /\ qIn \in QInputs
  /\ qOut = [state |-> "pending"]

QEstimate ==
  /\ qOut.state = "pending"
  /\ qOut' = [state |-> "estimated", est |-> getOptimalQuality(qIn)]
  /\ UNCHANGED <<qIn, nonQVars>>

\* compressBatch: fs.stat of the file fails before the quality is estimated
QBatchStatFails ==
  /\ qOut.state = "pending"
  /\ qIn.kind = "path"
  /\ qOut' = [state |-> "item",
              entry |-> [success |-> FALSE, error |-> Err("stat failed", <<>>), quality |-> 0]]
  /\ UNCHANGED <<qIn, nonQVars>>

\* compressBatch: the estimated quality goes to process
QBatchItem ==
  /\ qOut.state = "estimated"
  /\ qIn.kind = "path"
  /\ \E processed \in CompressorProcess(Val(BatchFile),
                        [quality |-> <<qOut.est.value>>, format |-> qIn.format]) :
       qOut' = [state |-> "item", est |-> qOut.est,
                entry |-> compressBatchItem(qIn, qOut.est, processed)]
  /\ UNCHANGED <<qIn, nonQVars>>

QNext == QEstimate \/ QBatchStatFails \/ QBatchItem

SpecQ == QInit /\ [][QNext]_vars

Estimated == qOut.state = "estimated" \/ (qOut.state = "item" /\ "est" \in DOMAIN qOut)

\* the names of the lossless formats, in the letter cases the inputs use
IsPngName(f) == f \in { <<<<"P","N","G">>>>, <<S_png>>, <<S_oxipng>> }

Computable == ~(qIn.fails \in {"stats", "metadata"} \/ (qIn.fails = "stat" /\ NeedsStat(qIn)))

\* C8 as stated: getOptimalQuality returns an integer in 50..95 for every
\* input, the png formats included.
C8_Original == Estimated => (qOut.est.kind = "return" /\ qOut.est.value \in 50..95)

\* C8 amended: getOptimalQuality returns an integer in 50..95, except for a
\* png/oxipng target with an alpha channel and computable statistics, where
\* it returns 100.
C8_Range ==
  Estimated =>
    /\ qOut.est.kind = "return"
    /\ IF Computable /\ IsPngName(qIn.format) /\ qIn.hasAlpha
         THEN qOut.est.value = 100
         ELSE qOut.est.value \in 50..95

C8_Witness ==
  /\ Estimated
  /\ Computable
  /\ qIn.format = <<S_avif>>
  /\ FormatAdjusted(qIn, BaseBeforeFormat(qIn)) > 95
  /\ qOut.est.value = 95

\* C9: for a png or oxipng target in any letter case with computable
\* statistics, the result is 100 with an alpha channel and 95 without,
\* whatever the channel statistics, the entropy and the file size.
C9_PngBranch ==
  (Estimated /\ Computable /\ IsPngName(qIn.format)) =>
    qOut.est = [kind |-> "return", value |-> IF qIn.hasAlpha THEN 100 ELSE 95]

C9_Witness ==
  /\ Estimated
  /\ Computable
  /\ qIn.format = <<<<"P","N","G">>>>
  /\ qIn.hasAlpha
  /\ qIn.size > LargeFile
  /\ qOut.est.value = 100

\* C10: getOptimalQuality never throws: when reading the statistics, the
\* metadata or the file size fails it returns 80, for every target format,
\* and compressBatch marks no item failed because of the estimation.
C10_FallbackQuality ==
  /\ Estimated =>
       /\ qOut.est.kind = "return"
       /\ ~Computable => qOut.est.value = 80
  /\ (qOut.state = "item" /\ ~qOut.entry.success) =>
       qOut.entry.error.msg \in {"stat failed", "Compression failed"}

C10_Witness ==
  /\ qOut.state = "item"
  /\ "est" \in DOMAIN qOut
  /\ qIn.fails = "stats"
  /\ IsPngName(qIn.format)
  /\ qOut.entry.success
  /\ qOut.entry.quality = 80

(***************************************************************************)
(* BackgroundRemover.process and fallbackBackgroundRemoval, with the mask  *)
(* (src/processors/background-remover.js)                                  *)
(*                                                                         *)
(* The distance of a pixel from the center is the square root of a         *)
(* fraction, DistanceSquared(w, h, x, y) / (w * h)^2, and the comparisons  *)
(* and the rounding of the code are done on it in integers. The double     *)
(* nearest to the literal 1.4 lies below 1.4: where 255 * (1.4 - distance) *)
(* would be a half in real arithmetic (distance 5/6, the one such case for *)
(* images narrower than 20 pixels) the code computes a value just below    *)
(* the half, and Math.round takes it down.                                 *)
(***************************************************************************)
MaxDim == 10

\* dx * dx + dy * dy, with dx = (x - centerX) / (originalWidth / 2) and
\* dy = (y - centerY) / (originalHeight / 2), as the numerator over (w * h)^2
DistanceSquared(w, h, x, y) ==
  (2 * x - w) * (2 * x - w) * h * h + (2 * y - h) * (2 * y - h) * w * w

\* distance > 0.4
BeyondCoreNear(w, h, x, y) == 25 * DistanceSquared(w, h, x, y) > 4 * w * w * h * h

\* distance > 0.6
BeyondCore(w, h, x, y) == 25 * DistanceSquared(w, h, x, y) > 9 * w * w * h * h

\* the integer part of Math.sqrt(n)
ISqrt(n) == CHOOSE s \in 0..n : s * s <= n /\ (s + 1) * (s + 1) > n

\* the least integer above 510 * Math.sqrt(n)
Above510Sqrt(n) ==
  LET s == ISqrt(n)
      k == 260100 * (n - s * s)
  IN  510 * s + (CHOOSE r \in 1..510 :
                   /\ r * r + 1020 * s * r > k
                   /\ (r - 1) * (r - 1) + 1020 * s * (r - 1) <= k)

\* Math.round(255 * (1.4 - distance)), which is negative beyond 1.4
FalloffAlphaUnclamped(w, h, x, y) ==
  LET c == Above510Sqrt(DistanceSquared(w, h, x, y))
  IN  (715 * w * h - c) \div (2 * w * h)

\* Math.round(Math.max(0, 255 * (1.4 - distance)))
FalloffAlpha(w, h, x, y) ==
  LET c == Above510Sqrt(DistanceSquared(w, h, x, y))
  IN  IF 715 * w * h >= c THEN (715 * w * h - c) \div (2 * w * h) ELSE 0

\* the falloff everywhere, the center included
RadialAlphaUnguarded(w, h, x, y) == FalloffAlpha(w, h, x, y)

\* let alpha = 255; if (distance > 0.6) alpha = ...; Math.round(alpha)
RadialAlpha(w, h, x, y) ==
  IF BeyondCore(w, h, x, y) THEN FalloffAlpha(w, h, x, y) ELSE 255

\* a Buffer element keeps the low eight bits of what is stored in it
WriteUInt8(v) == v % 256

\* maskBuffer after the two loops; element idx of the Buffer is at idx + 1
MaskBuffer(w, h) ==
  [p \in 1..(w * h * 4) |->
     LET idx == p - 1
         px  == idx \div 4
     IN  IF idx % 4 = 3
           THEN WriteUInt8(RadialAlpha(w, h, px % w, px \div w))
           ELSE 255]

Images == [width : 1..MaxDim, height : 1..MaxDim]

\* the raw description of the mask handed to composite
MaskRawSwapped(dimensions) ==
  [width |-> dimensions.originalHeight, height |-> dimensions.originalWidth, channels |-> 4]

MaskRaw(dimensions) ==
  [width |-> dimensions.originalWidth, height |-> dimensions.originalHeight, channels |-> 4]

\* process(input): the model is loaded, the metadata is awaited
BgProcess ==
  /\ mpc = "idle"
  /\ \E img \in Images : image' = img
  /\ mpc' = "metadata"
  /\ UNCHANGED <<maskBuffer, composite, mret, nonMaskVars>>

\* the metadata settles; with it fallbackBackgroundRemoval fills the mask
\* and hands it to composite
BgMetadata ==
  /\ mpc = "metadata"
  /\ \/ /\ mpc' = "failed"
        /\ mret' = [kind |-> "error",
                    err |-> Wrap("Background removal failed", <<>>,
                                 Err("metadata failed", <<>>))]
        /\ UNCHANGED <<maskBuffer, composite>>
     \/ LET dimensions == [originalWidth |-> image.width, originalHeight |-> image.height]
        IN  /\ maskBuffer' = MaskBuffer(dimensions.originalWidth, dimensions.originalHeight)
            /\ composite' = [image |-> image, raw |-> MaskRaw(dimensions)]
            /\ mpc' = "composite"
            /\ UNCHANGED mret
  /\ UNCHANGED <<image, nonMaskVars>>

\* the alpha the pixels of the input have after ensureAlpha()
ImageAlphas == {0, 128, 255}

\* blend: 'dest-in': the image keeps its alpha scaled by that of the mask
DestIn(imageAlpha, maskAlpha) == (imageAlpha * maskAlpha) \div 255

\* sharp(input).ensureAlpha().composite(...).png().toBuffer() settles
BgComposite ==
  /\ mpc = "composite"
  /\ \/ /\ mpc' = "done"
        /\ \E a \in ImageAlphas :
             mret' = [kind |-> "value",
                      val |-> [format |-> "png", width |-> composite.image.width,
                               height |-> composite.image.height,
                               alpha |-> [k \in 1..(composite.raw.width * composite.raw.height)
                                            |-> DestIn(a, maskBuffer[4 * k])]]]
     \/ /\ mpc' = "failed"
        /\ mret' = [kind |-> "error",
                    err |-> Wrap("Background removal failed", <<>>,
                                 Wrap("Advanced background removal failed", <<>>,
                                      Err("toBuffer failed", <<>>)))]
  /\ UNCHANGED <<image, maskBuffer, composite, nonMaskVars>>

BgReturn ==
  /\ mpc \in {"done", "failed"}
  /\ mpc' = "idle"
  /\ image' = NoImage
  /\ maskBuffer' = <<>>
  /\ composite' = NoComposite
  /\ mret' = NoRet
  /\ UNCHANGED nonMaskVars

MNext == BgProcess \/ BgMetadata \/ BgComposite \/ BgReturn

SpecM == Init /\ [][MNext]_vars

(***************************************************************************)
(* Properties of the mask                                                  *)
(***************************************************************************)
MaskBuilt == composite # NoComposite

\* the alpha stored for pixel (x, y)
AlphaAt(x, y) == maskBuffer[(y * image.width + x) * 4 + 3 + 1]

Pixels == (0..(image.width - 1)) \X (0..(image.height - 1))

\* C11 as stated: for every width >= 1 and height >= 1 the mask has one alpha
\* per pixel, every alpha is an integer in 0..255, and the alpha of the
\* center pixel (floor(width/2), floor(height/2)) is 255.
C11_CenterOpaque ==
  MaskBuilt =>
    /\ Len(maskBuffer) = image.width * image.height * 4
    /\ \A p \in Pixels : AlphaAt(p[1], p[2]) \in 0..255
    /\ AlphaAt(image.width \div 2, image.height \div 2) = 255

\* C12 as stated: for a 10x10 image the alpha is 255 at pixel (5,5) and 0 at
\* the four corner pixels (0,0), (9,0), (0,9) and (9,9).
C12_CornersTransparent ==
  (MaskBuilt /\ image = [width |-> 10, height |-> 10]) =>
    /\ AlphaAt(5, 5) = 255
    /\ AlphaAt(0, 0) = 0
    /\ AlphaAt(9, 0) = 0
    /\ AlphaAt(0, 9) = 0
    /\ AlphaAt(9, 9) = 0

\* C13: within one image, a pixel that is no farther from the center than
\* another has an alpha that is no smaller: the alpha never rises with the
\* distance, below, across and beyond the 0.6 threshold.
C13_MonotonicFalloff ==
  MaskBuilt =>
    \A p, q \in Pixels :
      DistanceSquared(image.width, image.height, p[1], p[2])
        <= DistanceSquared(image.width, image.height, q[1], q[2])
      => AlphaAt(p[1], p[2]) >= AlphaAt(q[1], q[2])

C13_Witness ==
  /\ MaskBuilt
  /\ image = [width |-> 10, height |-> 8]
  /\ ~BeyondCore(10, 8, 5, 4) /\ AlphaAt(5, 4) = 255
  /\ BeyondCore(10, 8, 9, 4) /\ AlphaAt(9, 4) = 153
  /\ AlphaAt(9, 1) = 77
  /\ AlphaAt(0, 0) = 0

\* C15: the mask handed to composite is declared with the width and the
\* height of the image it is composed with, as four channels, and its buffer
\* holds width * height * 4 bytes.
C15_MaskMatchesImage ==
  MaskBuilt =>
    /\ composite.raw.width = composite.image.width
    /\ composite.raw.height = composite.image.height
    /\ composite.raw.channels = 4
    /\ composite.image = image
    /\ Len(maskBuffer) = composite.image.width * composite.image.height * 4

C15_Witness ==
  /\ mpc = "done"
  /\ composite.image = [width |-> 3, height |-> 7]
  /\ composite.raw = [width |-> 3, height |-> 7, channels |-> 4]
  /\ Len(maskBuffer) = 84

(***************************************************************************)
(* The command line (src/cli.js)                                           *)
(*                                                                         *)
(* A command makes one ImageZen, resolves its input to a list of files     *)
(* and, file after file, computes the output path, awaits the entry point  *)
(* and awaits the write. Any error is caught once, reported on the         *)
(* spinner and followed by process.exit(1).                                *)
(***************************************************************************)
MaxFiles == 3

\* the files on disk a command may meet
CliFiles ==
  { [kind |-> "string", len |-> 8, exists |-> TRUE, ext |-> <<"t","x","t">>, readable |-> TRUE,
     dir |-> "in", base |-> "a"],
    [kind |-> "string", len |-> 8, exists |-> TRUE, ext |-> S_png, readable |-> TRUE,
     dir |-> "in", base |-> "b"],
    [kind |-> "string", len |-> 8, exists |-> TRUE, ext |-> <<"J","P","G">>, readable |-> FALSE,
     dir |-> "in", base |-> "c"],
    [kind |-> "string", len |-> 8, exists |-> TRUE, ext |-> S_jpg, readable |-> TRUE,
     dir |-> "in", base |-> "d"] }

NoRepeat(seq) == \A a, b \in 1..Len(seq) : seq[a] = seq[b] => a = b

FileLists == { l \in SeqsUpTo(CliFiles, MaxFiles) : NoRepeat(l) }

\* the <input> argument: a pattern with '*', a directory, a file, or a path
\* that fs.stat rejects
CliInputs ==
  { [kind |-> "glob"], [kind |-> "dir"], [kind |-> "missing"] }
  \cup { [kind |-> "file", file |-> f] : f \in CliFiles }

\* getInputFiles(input): the lists it may return, or that it throws
getInputFiles(input) ==
  IF input.kind = "glob" THEN { [ok |-> TRUE, files |-> l] : l \in FileLists }
  ELSE IF input.kind = "missing" THEN { [ok |-> FALSE, files |-> <<>>] }
  ELSE IF input.kind = "dir"
    THEN { [ok |-> TRUE, files |-> l] :
           l \in { m \in FileLists :
                   \A k \in 1..Len(m) : m[k].ext \in {S_jpg, S_jpeg, S_png, S_webp} } }
  ELSE { [ok |-> TRUE, files |-> <<input.file>>] }

\* the -o option: not given, a path with an extension, a directory
CliOutputs ==
  { <<>>,
    <<[dir |-> "out", name |-> "result", ext |-> S_png]>>,
    <<[dir |-> "outdir", name |-> "", ext |-> <<>>]>> }

\* getOutputPath(inputPath, outputOption, format, suffix)
getOutputPath(inputPath, outputOption, format, suffix) ==
  IF outputOption # <<>>
    THEN IF outputOption[1].ext # <<>>
           THEN [dir |-> outputOption[1].dir, name |-> outputOption[1].name,
                 suffix |-> "", ext |-> outputOption[1].ext]
           ELSE [dir |-> outputOption[1].dir, name |-> inputPath.base,
                 suffix |-> suffix, ext |-> format]
    ELSE [dir |-> inputPath.dir, name |-> inputPath.base, suffix |-> suffix, ext |-> format]

Command(name, input, output, format, scale, quality, tasks) ==
  [name |-> name, input |-> input, output |-> output, format |-> format,
   scale |-> scale, quality |-> quality, tasks |-> tasks]

Commands ==
  { Command("remove-bg", in, o, f, 2, 80, <<>>) :
      in \in CliInputs, o \in CliOutputs, f \in {S_png, S_webp} }
  \cup { Command("upscale", in, <<>>, S_png, sc, 80, <<>>) : in \in CliInputs, sc \in {2, 3} }
  \cup { Command("compress", in, <<>>, f, 2, 80, <<>>) :
           in \in CliInputs, f \in {S_webp, <<"g","i","f">>} }
  \cup { Command("enhance", in, <<>>, S_webp, 2, 80, t) :
           in \in CliInputs,
           t \in { <<"compress">>, <<"remove-bg", "upscale">>, <<"sharpen">> } }

InfoCommand == Command("info", [kind |-> "none"], <<>>, <<>>, 0, 0, <<>>)

Suffix(c) ==
  IF c.name = "upscale" THEN "_Nx"
  ELSE IF c.name = "compress" THEN "_compressed"
  ELSE IF c.name = "enhance" THEN "_enhanced"
  ELSE ""

\* Pipeline.execute from its first stage to its result
RECURSIVE PipelineRun(_, _, _, _, _)
PipelineRun(st, k, v, cache, loaded) ==
  IF k > Len(st) THEN { [out |-> Ok(<<>>, v), cache |-> cache, loaded |-> loaded] }
  ELSE IF ~StageKnown(st[k].name)
    THEN { [out |-> Fail(<<>>, StageError(st[k].name, Err("Unknown stage", st[k].name))),
            cache |-> cache, loaded |-> loaded] }
  ELSE UNION { IF r.out.ok
                 THEN PipelineRun(st, k + 1, r.out.val, r.cache, r.loaded)
                 ELSE { [out |-> Fail(<<>>, StageError(st[k].name, r.out.err)),
                         cache |-> r.cache, loaded |-> r.loaded] } :
               r \in Process(st[k].processor, v, st[k].args, cache, loaded) }

\* the entry point a command awaits for one file: zen.removeBackground(file),
\* zen.upscale(file, scale), zen.compress(file, { quality, format }) or
\* zen.enhance(file, { tasks, scale, compression })
ZenCall(c, file, cache, loaded) ==
  IF validateInput(file) # NoErr
    THEN { [out |-> Fail(<<>>, validateInput(file)), cache |-> cache, loaded |-> loaded] }
  ELSE IF c.name = "remove-bg"
    THEN Process("backgroundRemover", Val(file), NoArgs, cache, loaded)
  ELSE IF c.name = "upscale"
    THEN Process("upscaler", Val(file), ScaleArg(c.scale), cache, loaded)
  ELSE IF c.name = "compress"
    THEN Process("compressor", Val(file),
                 OptionsArg(Merge(defaultOptions, Options(c.quality, c.format))),
                 cache, loaded)
  ELSE LET built == EnhanceAddTasks(c.tasks, 1, <<>>,
                      [scale |-> <<c.scale>>,
                       compression |-> <<Options(c.quality, c.format)>>])
       IN  IF built.err # NoErr
             THEN { [out |-> Fail(<<>>, built.err), cache |-> cache, loaded |-> loaded] }
             ELSE PipelineRun(built.stages, 1, Val(file), cache, loaded)

Spin(kind, arg) == [kind |-> kind, arg |-> arg]

\* the catch without process.exit(1): the process ends by itself
CliCatchNoExit(error) ==
  /\ spinner' = Append(spinner, Spin("fail", error))
  /\ exitCode' = <<0>>
  /\ cpc' = "exited"

\* catch (error) { spinner.fail(...error.message...); process.exit(1); }
CliCatch(error) ==
  /\ spinner' = Append(spinner, Spin("fail", error))
  /\ exitCode' = <<1>>
  /\ cpc' = "exited"

\* a processing command starts: the spinner, new ImageZen({ verbose: true })
CliRun ==
  /\ cpc = "idle"
  /\ pc = "idle"
  /\ \E c \in Commands : cmd' = c
  /\ cpc' = "resolve"
  /\ spinner' = <<Spin("start", NoErr)>>
  /\ models' = {}
  /\ bgModel' = NoModel
  /\ UNCHANGED <<files, ck, result, written, exitCode>>
  /\ UNCHANGED <<pc, call, stages, i, current, log, ret, qVars, mVars, bVars, pVars>>

\* the info command prints and ends
CliInfo ==
  /\ cpc = "idle"
  /\ pc = "idle"
  /\ cmd' = InfoCommand
  /\ spinner' = <<Spin("log", NoErr)>>
  /\ exitCode' = <<0>>
  /\ cpc' = "exited"
  /\ UNCHANGED <<files, ck, result, written, nonCliVars>>

\* await getInputFiles(input)
CliResolve ==
  /\ cpc = "resolve"
  /\ \E r \in getInputFiles(cmd.input) :
       IF r.ok
         THEN /\ files' = r.files
              /\ ck' = 1
              /\ cpc' = "loop"
              /\ UNCHANGED <<spinner, exitCode>>
         ELSE /\ CliCatch(Err("stat failed", <<>>))
              /\ UNCHANGED <<files, ck>>
  /\ UNCHANGED <<cmd, result, written, nonCliVars>>

\* the entry point awaited for file ck settles
CliProcess ==
  /\ cpc = "loop"
  /\ ck <= Len(files)
  /\ \E r \in ZenCall(cmd, files[ck], models, bgModel) :
       /\ models' = r.cache
       /\ bgModel' = r.loaded
       /\ IF r.out.ok
            THEN /\ result' = r.out.val
                 /\ cpc' = "write"
                 /\ UNCHANGED <<spinner, exitCode>>
            ELSE /\ CliCatch(r.out.err)
                 /\ UNCHANGED result
  /\ UNCHANGED <<cmd, files, ck, written>>
  /\ UNCHANGED <<pc, call, stages, i, current, log, ret, qVars, mVars, bVars, pVars>>

\* await fs.writeFile(outputPath, result); spinner.text = ...
CliWrite ==
  /\ cpc = "write"
  /\ LET outputPath == getOutputPath(files[ck], cmd.output, cmd.format, Suffix(cmd))
     IN  \/ /\ written' = Append(written, [file |-> files[ck], path |-> outputPath,
                                           data |-> result])
            /\ spinner' = Append(spinner, Spin("text", NoErr))
            /\ ck' = ck + 1
            /\ cpc' = "loop"
            /\ UNCHANGED exitCode
         \/ /\ CliCatch(Err("writeFile failed", <<>>))
            /\ UNCHANGED <<written, ck>>
  /\ UNCHANGED <<cmd, files, result, nonCliVars>>

\* the loop is over: spinner.succeed, and the process ends
CliSucceed ==
  /\ cpc = "loop"
  /\ ck > Len(files)
  /\ spinner' = Append(spinner, Spin("succeed", NoErr))
  /\ exitCode' = <<0>>
  /\ cpc' = "exited"
  /\ UNCHANGED <<cmd, files, ck, result, written, nonCliVars>>

CNext == CliRun \/ CliInfo \/ CliResolve \/ CliProcess \/ CliWrite \/ CliSucceed

SpecCli == Init /\ [][CNext]_vars

\* a process that uses the library, from a program or from the command line
SpecAll == Init /\ [][Next \/ CNext]_vars

(***************************************************************************)
(* Properties of the background removal's output and of the command line   *)
(***************************************************************************)
\* the PNG the background removal makes of a value
PngOf(v) == Out(v, "removeBackground", <<"png", <<>>>>)

RemoveBgReturns ==
  { k \in 1..Len(log) :
      /\ log[k].ev = "return"
      /\ stages[log[k].arg.stage].name = "removeBackground" }

C14_CliReached ==
  /\ cmd.name = "remove-bg"
  /\ cmd.format = S_webp
  /\ Len(written) = 1
  /\ written[1].path.ext = S_webp
  /\ written[1].data.ops[1].args[1] = "png"

Reported == spinner[Len(spinner)]

\* C18: a processing command ends with exit code 1, after reporting the
\* error, whenever resolving the input, processing a file or writing an
\* output failed, and reports success only when every file was processed and
\* written; the info command ends with exit code 0.
C18_ExitCodes ==
  /\ cpc # "exited" =>
       /\ exitCode = <<>>
       /\ \A k \in 1..Len(spinner) : spinner[k].kind \notin {"fail", "succeed"}
       /\ cpc \in {"loop", "write"} => Len(written) = ck - 1
  /\ (cpc = "exited" /\ cmd.name = "info") => exitCode = <<0>>
  /\ (cpc = "exited" /\ cmd.name # "info") =>
       /\ Reported.kind \in {"fail", "succeed"}
       /\ (Reported.kind = "fail") <=> (exitCode = <<1>>)
       /\ (Reported.kind = "succeed") <=> (exitCode = <<0>>)
       /\ Reported.kind = "fail" => Reported.arg.msg # ""
       /\ Reported.kind = "succeed" =>
            /\ cmd.input.kind # "missing"
            /\ Len(written) = Len(files)
            /\ \A k \in 1..Len(files) :
                 /\ written[k].file = files[k]
                 /\ validateInput(files[k]) = NoErr
            /\ (cmd.name = "upscale" /\ files # <<>>) => cmd.scale \in {2, 4}
            /\ (cmd.name = "enhance" /\ files # <<>>) => ~HasUnknown(cmd.tasks)
       /\ (\E k \in 1..Len(files) : validateInput(files[k]) # NoErr) =>
            exitCode = <<1>>

C18_Witness ==
  /\ cpc = "exited"
  /\ cmd.name = "compress"
  /\ Len(files) = 2
  /\ Len(written) = 1
  /\ Reported.kind = "fail"
  /\ Reported.arg.msg = "Cannot read input file"
  /\ exitCode = <<1>>

(***************************************************************************)
(* The batch helpers: ImageUpscaler.processBatch,                          *)
(* BackgroundRemover.processBatch and ImageCompressor.compressBatch        *)
(*                                                                         *)
(* bi is i + 1. progress is the history of one call: the operations it     *)
(* started, how each settled, and the calls of the progress callback. The  *)
(* callback is the caller's code: one that may throw does or does not at   *)
(* each of its calls.                                                      *)
(***************************************************************************)
Callbacks == {"none", "returns", "may throw"}

\* the quality compressBatch gets from getOptimalQuality when none is set
EstimatedQualities == {80, 100}

BatchCalls ==
  { [helper |-> "upscaler", files |-> l, scale |-> sc, options |-> NoOptions, callback |-> cb] :
      l \in SeqsUpTo(CliFiles, MaxFiles), sc \in {<<>>, <<4>>, <<8>>}, cb \in Callbacks }
  \cup
  { [helper |-> "backgroundRemover", files |-> l, scale |-> <<>>, options |-> NoOptions,
     callback |-> cb] :
      l \in SeqsUpTo(CliFiles, MaxFiles), cb \in Callbacks }
  \cup
  { [helper |-> "compressor", files |-> l, scale |-> <<>>, options |-> o, callback |-> cb] :
      l \in SeqsUpTo(CliFiles, MaxFiles),
      o \in {NoOptions, Options(0, S_png), Options(70, S_webp)},
      cb \in Callbacks }

\* what one iteration awaits for its file: this.process(file, scale, options),
\* this.process(file, options), or fs.stat, the quality and this.process
BatchOperation(b, file, cache, loaded) ==
  IF b.helper = "upscaler"
    THEN Process("upscaler", Val(file), [scale |-> b.scale, options |-> <<>>], cache, loaded)
  ELSE IF b.helper = "backgroundRemover"
    THEN Process("backgroundRemover", Val(file), OptionsArg(b.options), cache, loaded)
  ELSE { [out |-> Fail(<<Ev("stat", Val(file))>>, Err("stat failed", <<>>)),
          cache |-> cache, loaded |-> loaded] }
       \cup
       UNION { Process("compressor", Val(file),
                       OptionsArg([quality |-> <<q>>, format |-> b.options.format]),
                       cache, loaded) :
               q \in (IF OrDefault(b.options.quality, 0) = 0
                        THEN EstimatedQualities
                        ELSE {b.options.quality[1]}) }

\* progressCallback(i + 1, files.length, info) returns or throws
CallbackOutcomes(cb) == IF cb = "may throw" THEN {"returned", "threw"} ELSE {"returned"}

CallbackError == Err("progress callback threw", <<>>)

Entry(file, success, error) == [file |-> file, success |-> success, error |-> error]

Called(done, total, success) ==
  Ev("callback", [current |-> done, total |-> total, success |-> success])

\* a batch helper is called: const results = []; i = 0
BatchCall ==
  /\ bpc = "idle"
  /\ \E b \in BatchCalls : batch' = b
  /\ bi' = 1
  /\ results' = <<>>
  /\ progress' = <<>>
  /\ bpc' = "loop"
  /\ models' = {}
  /\ bgModel' = NoModel
  /\ UNCHANGED <<pc, call, stages, i, current, log, ret, qVars, mVars, cVars, pVars>>

\* i < files.length: the iteration starts the operation on files[i]
BatchStart ==
  /\ bpc = "loop"
  /\ bi <= Len(batch.files)
  /\ progress' = Append(progress, Ev("start", bi))
  /\ bpc' = "await"
  /\ UNCHANGED <<batch, bi, results, nonBatchVars>>

\* the awaited operation settles, and the iteration runs to its end: the
\* entry is pushed and the callback called inside the try; whatever throws
\* there, the operation or the callback, lands in the catch, which pushes a
\* failed entry and calls the callback itself
BatchSettle ==
  /\ bpc = "await"
  /\ \E r \in BatchOperation(batch, batch.files[bi], models, bgModel) :
       LET file    == batch.files[bi]
           total   == Len(batch.files)
           settled == Append(progress,
                             Ev("settle", [index |-> bi, ok |-> r.out.ok,
                                           err |-> IF r.out.ok THEN NoErr ELSE r.out.err]))
           next    == /\ bi' = bi + 1
                      /\ bpc' = "loop"
           reject  == /\ bi' = bi
                      /\ bpc' = "rejected"
           \* the catch block, entered with the error and the history so far
           catch(error, res, hist) ==
             /\ results' = Append(res, Entry(file, FALSE, error))
             /\ IF batch.callback = "none"
                  THEN progress' = hist /\ next
                  ELSE /\ progress' = Append(hist, Called(bi, total, FALSE))
                       /\ \E o \in CallbackOutcomes(batch.callback) :
                            IF o = "returned" THEN next ELSE reject
       IN  /\ models' = r.cache
           /\ bgModel' = r.loaded
           /\ IF r.out.ok
                THEN IF batch.callback = "none"
                       THEN /\ results' = Append(results, Entry(file, TRUE, NoErr))
                            /\ progress' = settled
                            /\ next
                       ELSE \E o \in CallbackOutcomes(batch.callback) :
                              IF o = "returned"
                                THEN /\ results' = Append(results, Entry(file, TRUE, NoErr))
                                     /\ progress' = Append(settled, Called(bi, total, TRUE))
                                     /\ next
                                ELSE catch(CallbackError,
                                           Append(results, Entry(file, TRUE, NoErr)),
                                           Append(settled, Called(bi, total, TRUE)))
                ELSE catch(r.out.err, results, settled)
  /\ UNCHANGED batch
  /\ UNCHANGED <<pc, call, stages, i, current, log, ret, qVars, mVars, cVars, pVars>>

\* the loop is over: return results
BatchReturn ==
  /\ bpc = "loop"
  /\ bi > Len(batch.files)
  /\ bpc' = "returned"
  /\ UNCHANGED <<batch, bi, results, progress, nonBatchVars>>

BNext == BatchCall \/ BatchStart \/ BatchSettle \/ BatchReturn

SpecB == Init /\ [][BNext]_vars

(***************************************************************************)
(* Properties of the batch helpers                                         *)
(***************************************************************************)
Settles == SelectSeq(progress, LAMBDA e : IsEvent(e, "settle"))

Starts == SelectSeq(progress, LAMBDA e : IsEvent(e, "start"))

Calls == SelectSeq(progress, LAMBDA e : IsEvent(e, "callback"))

\* C16 as stated: whatever the files, the failures and the callback, a batch
\* helper does not abort and returns exactly one entry per file, in input
\* order, entry k marked success exactly when the operation on file k
\* succeeded and carrying its error message otherwise.
C16_OneEntryPerFile ==
  /\ bpc # "rejected"
  /\ bpc = "returned" =>
       /\ Len(results) = Len(batch.files)
       /\ \A k \in 1..Len(results) :
            /\ results[k].file = batch.files[k]
            /\ results[k].success = Settles[k].arg.ok
            /\ results[k].error = Settles[k].arg.err

\* C17 as stated: the operation on a file is started only after the one on
\* the file before it has settled, at most one is in flight, and the
\* callback is called exactly once per file, after that file's operation,
\* with current = i + 1 and total = the number of files, in rising order.
C17_SequentialProgress ==
  /\ Len(Starts) - Len(Settles) \in {0, 1}
  /\ \A k \in 1..Len(Starts) : Starts[k].arg = k
  /\ \A k \in 1..Len(Settles) : Settles[k].arg.index = k
  /\ \A a \in 1..Len(progress) :
       progress[a].ev = "start" =>
         \A k \in 1..(progress[a].arg - 1) :
           \E c \in 1..(a - 1) : progress[c].ev = "settle" /\ progress[c].arg.index = k
  /\ (batch # NoBatch /\ batch.callback # "none") =>
       /\ \A k \in 1..Len(Calls) :
            /\ Calls[k].arg.current = k
            /\ Calls[k].arg.total = Len(batch.files)
       /\ bpc \in {"loop", "returned"} => Len(Calls) = Len(Settles)
  /\ (batch # NoBatch /\ batch.callback = "none") => Calls = <<>>

(***************************************************************************)
(* Properties of the input validation                                      *)
(***************************************************************************)
InputExtensions == {S_jpg, S_jpeg, S_png, S_webp, S_tiff, S_bmp}

\* the extension in lower case, letter by letter
Lowered(ext) == [k \in 1..Len(ext) |-> LowerChar(ext[k])]

\* the inputs the validation is to accept: a Buffer that is not empty, or
\* the path of a readable file with a supported extension
Acceptable(x) ==
  \/ x.kind = "buffer" /\ x.len > 0
  \/ /\ x.kind = "string"
     /\ x.len > 0
     /\ x.exists
     /\ Lowered(x.ext) \in InputExtensions
     /\ x.readable

\* the message of the first check an input fails, in the order falsy, empty
\* Buffer, not a string, missing file, extension, unreadable file
Rejection(x) ==
  CASE x.kind = "null" \/ (x.kind = "string" /\ x.len = 0) -> "Input is required"
    [] x.kind = "buffer" -> "Input buffer is empty"
    [] x.kind \notin {"null", "string", "buffer"} ->
         "Input must be a file path (string) or Buffer"
    [] x.kind = "string" /\ x.len > 0 /\ ~x.exists -> "Input file does not exist"
    [] x.kind = "string" /\ x.len > 0 /\ x.exists /\ Lowered(x.ext) \notin InputExtensions ->
         "Unsupported input format"
    [] OTHER -> "Cannot read input file"

ValidationMessages ==
  { "Input is required", "Input buffer is empty",
    "Input must be a file path (string) or Buffer", "Input file does not exist",
    "Unsupported input format", "Cannot read input file" }

EntryPoint ==
  call.api \in {"removeBackground", "upscale", "compress", "enhance", "upscaleMeta", "enhanceMeta"}

\* C19: the validation accepts exactly the Buffers that are not empty and
\* the paths of existing, readable files with an extension among jpg, jpeg,
\* png, webp, tiff, bmp in any letter case; any other input is rejected with
\* the message of the first check it fails.
C19_ValidateInput ==
  /\ (EntryPoint /\ ~Acceptable(call.input)) =>
       (pc = "failed" /\ ret.kind = "error" /\ ret.err.msg = Rejection(call.input))
  /\ (EntryPoint /\ Acceptable(call.input) /\ pc = "failed") =>
       ret.err.msg \notin ValidationMessages

C19_Witness ==
  /\ call.api = "compress"
  /\ call.input.exists
  /\ call.input.ext = <<"t","x","t">>
  /\ ~call.input.readable
  /\ pc = "failed"
  /\ ret.err.msg = "Unsupported input format"

\* C20: an entry point validates its input before anything else: for an input
\* the validation rejects, the call fails with the validation error and no
\* model was loaded, no processor, codec or stage was invoked and nothing
\* was written, in enhance also when the task list names an unknown task.
C20_ValidationFirst ==
  (EntryPoint /\ ~Acceptable(call.input)) =>
    /\ pc = "failed"
    /\ ret.kind = "error"
    /\ ret.err.msg = Rejection(call.input)
    /\ log = <<>>
    /\ stages = <<>>
    /\ models = {}
    /\ bgModel = NoModel
    /\ current = NoVal

C20_Witness ==
  /\ call.api = "enhance"
  /\ ~Acceptable(call.input)
  /\ HasUnknown(call.tasks)
  /\ call.output # <<>>
  /\ pc = "failed"
  /\ ret.err.msg = "Input buffer is empty"
  /\ log = <<>>

(***************************************************************************)
(* Properties of compress                                                  *)
(***************************************************************************)
\* the formats compressWithSharp has a case for
CompressFormats == {S_webp, S_avif, S_jpeg, S_jpg, S_mozjpeg, S_png, S_oxipng}

\* the format compress works with: the caller's, or 'webp'
CallFormat == IF call.options.format = <<>> THEN S_webp ELSE call.options.format[1]

UnsupportedFormatError ==
  Wrap("Compression failed", <<>>, Err("Unsupported compression format", CallFormat))

\* C21: on a valid input, compress with a format that is, in lower case, none
\* of webp, avif, jpeg, jpg, mozjpeg, png, oxipng fails with the error that
\* names the format as the caller wrote it, no codec is invoked and no bytes
\* are returned; with one of those formats in any letter case, and with every
\* format of supportedFormats.output, that error is not raised.
C21_UnsupportedFormat ==
  (call.api = "compress" /\ InputValid) =>
    /\ Lowered(CallFormat) \notin CompressFormats =>
         /\ pc \in {"proc", "failed"}
         /\ pc = "failed" => ret = [kind |-> "error", err |-> UnsupportedFormatError]
         /\ \A k \in 1..Len(log) : log[k].ev # "encode"
    /\ (Lowered(CallFormat) \in CompressFormats \/ Includes(supportedFormats.output, CallFormat)) =>
         (pc = "failed" => ret.err.cause.msg # "Unsupported compression format")

C21_Witness ==
  /\ call.api = "compress"
  /\ InputValid
  /\ call.options.format = <<<<"i","n","v","a","l","i","d">>>>
  /\ pc = "failed"
  /\ ret.err.cause = Err("Unsupported compression format", <<"i","n","v","a","l","i","d">>)

(***************************************************************************)
(* Properties of what enhance returns and writes                           *)
(***************************************************************************)
Writes == SelectSeq(log, LAMBDA e : IsEvent(e, "writeFile"))

\* the config names an output path
Configured == call.output # <<>> /\ call.output[1] # ""

\* C22: enhance returns the output of the last stage when no output path is
\* configured and writes nothing; with an output path it writes that output
\* to the path once, after every stage has returned, as the last thing it
\* does, and returns the path; when the validation fails, a task is unknown
\* or a stage fails, nothing has been written.
C22_EnhanceOutput ==
  call.api = "enhance" =>
    /\ Len(Writes) <= 1
    /\ \A k \in 1..Len(log) :
         log[k].ev = "writeFile" =>
           /\ k = Len(log)
           /\ Configured
           /\ Len(Returns) = Len(call.tasks)
           /\ log[k].arg = [path |-> call.output[1], data |-> LastOutput]
    /\ pc = "done" =>
         IF Configured
           THEN ret = [kind |-> "path", val |-> call.output[1]] /\ Len(Writes) = 1
           ELSE ret = [kind |-> "value", val |-> LastOutput] /\ Writes = <<>>
    /\ (pc = "failed" /\ ret.err.msg \in ValidationMessages
                                        \cup {"Unknown task", "Pipeline failed at stage"}) =>
         Writes = <<>>
    /\ (~Acceptable(call.input) \/ HasUnknown(call.tasks)) => (pc = "failed" /\ log = <<>>)

C22_Witness ==
  /\ call.api = "enhance"
  /\ call.tasks = <<"upscale", "compress">>
  /\ call.output = <<"out.webp">>
  /\ pc = "done"
  /\ ret = [kind |-> "path", val |-> "out.webp"]
  /\ Writes = <<Ev("writeFile", [path |-> "out.webp", data |-> Returns[2].arg.val])>>

\* a stage failed after an earlier one succeeded, with an output path configured
C22_FailedReached ==
  /\ call.api = "enhance"
  /\ Configured
  /\ StageFailed
  /\ Len(Returns) = 1
  /\ Writes = <<>>

(***************************************************************************)
(* Properties of the model loading                                         *)
(***************************************************************************)
\* the upscaler, or the background remover, is the processor being awaited
PendingUpscale ==
  \/ pc = "stage" /\ stages[i].processor = "upscaler"
  \/ pc = "proc" /\ call.api = "upscale"
  \/ pc = "meta"

PendingScale == IF pc = "stage" THEN DefaultParam(stages[i].args.scale, 2) ELSE UpscaleScale

PendingBackground ==
  \/ pc = "stage" /\ stages[i].processor = "backgroundRemover"
  \/ pc = "proc" /\ call.api = "removeBackground"

PendingOptions ==
  IF pc = "stage" THEN DefaultParam(stages[i].args.options, NoOptions)
  ELSE DefaultParam(call.options, NoOptions)

C23_LoadedReached ==
  /\ call.api = "enhance"
  /\ pc = "done"
  /\ models = {[scale |-> 4, tflite |-> FALSE, fallback |-> TRUE]}
  /\ bgModel = <<[fallback |-> TRUE]>>

(***************************************************************************)
(* Pipeline objects: add, insert, remove, clear, clone, getInfo            *)
(* (src/utils/pipeline.js)                                                 *)
(*                                                                         *)
(* A stages array is an object: heap holds the arrays, ref the array that  *)
(* this.stages of each Pipeline points to (0 while the Pipeline does not   *)
(* exist). push and splice change an array in place; filter, [] and        *)
(* [...stages] make a new one. An array no Pipeline points to is gone.     *)
(* lastOp is the method called last; for remove, with the length the list  *)
(* had.                                                                    *)
(***************************************************************************)
MaxStages == 3

Pipelines == {"p", "p2"}

Other(x) == IF x = "p" THEN "p2" ELSE "p"

\* the stages a caller adds or inserts
BuilderStages == { st \in DirectStages : st.name \in {"removeBackground", "compress", "sepia"} }

\* the index argument of insert
InsertIndexes == {-1, 0, 5}

\* where a new array goes: a slot the other Pipeline does not point to
Fresh(x) == IF ref[Other(x)] = 1 THEN 2 ELSE 1

\* this.stages.filter(...) keeps the stages up to the first one of that name
\* and those after it
PipelineRemoveFirst(st, name) ==
  IF \E k \in 1..Len(st) : st[k].name = name
    THEN LET k == CHOOSE j \in 1..Len(st) :
                    st[j].name = name /\ \A h \in 1..(j - 1) : st[h].name # name
         IN  SubSeq(st, 1, k - 1) \o SubSeq(st, k + 1, Len(st))
    ELSE st

\* this.stages.filter(stage => stage.name !== name)
PipelineRemove(st, name) == SelectSeq(st, LAMBDA stage : stage.name # name)

\* this.stages.splice(index, 0, stage): an index beyond the end is the end, a
\* negative one counts from the end
PipelineInsert(st, index, stage) ==
  LET start == IF index < 0 THEN Max(Len(st) + index, 0) ELSE Min(index, Len(st))
  IN  SubSeq(st, 1, start) \o <<stage>> \o SubSeq(st, start + 1, Len(st))

PipelineGetInfo(st) ==
  [stageCount |-> Len(st),
   stages     |-> [k \in 1..Len(st) |-> [name |-> st[k].name, args |-> st[k].args]]]

Did(kind, x, name) ==
  lastOp' = [kind |-> kind, target |-> x, name |-> name,
             before |-> IF kind = "remove" THEN Len(heap[ref[x]]) ELSE 0]

\* x.add(name, processor, ...args): push
PAdd(x) ==
  /\ ref[x] # 0
  /\ Len(heap[ref[x]]) < MaxStages
  /\ \E st \in BuilderStages :
       /\ heap' = [heap EXCEPT ![ref[x]] = PipelineAdd(@, st.name, st.processor, st.args)]
       /\ Did("add", x, st.name)
  /\ UNCHANGED <<ref, nonPipeVars>>

\* x.insert(index, name, processor, ...args): splice
PInsert(x) ==
  /\ ref[x] # 0
  /\ Len(heap[ref[x]]) < MaxStages
  /\ \E st \in BuilderStages, index \in InsertIndexes :
       /\ heap' = [heap EXCEPT ![ref[x]] = PipelineInsert(@, index, st)]
       /\ Did("insert", x, st.name)
  /\ UNCHANGED <<ref, nonPipeVars>>

\* x.remove(name): this.stages = this.stages.filter(...)
PRemove(x) ==
  /\ ref[x] # 0
  /\ \E name \in { st.name : st \in BuilderStages } :
       /\ heap' = [heap EXCEPT ![Fresh(x)] = PipelineRemove(heap[ref[x]], name)]
       /\ Did("remove", x, name)
  /\ ref' = [ref EXCEPT ![x] = Fresh(x)]
  /\ UNCHANGED nonPipeVars

\* x.clear(): this.stages = []
PClear(x) ==
  /\ ref[x] # 0
  /\ heap' = [heap EXCEPT ![Fresh(x)] = <<>>]
  /\ ref' = [ref EXCEPT ![x] = Fresh(x)]
  /\ Did("clear", x, "")
  /\ UNCHANGED nonPipeVars

\* newPipeline.stages = this.stages
PipelineCloneShared ==
  /\ ref' = [ref EXCEPT !["p2"] = ref["p"]]
  /\ heap' = heap
  /\ Did("clone", "p", "")
  /\ UNCHANGED nonPipeVars

\* p2 = p.clone(): newPipeline.stages = [...this.stages]
PipelineClone ==
  /\ ref' = [ref EXCEPT !["p2"] = Fresh("p2")]
  /\ heap' = [heap EXCEPT ![Fresh("p2")] = heap[ref["p"]]]
  /\ Did("clone", "p", "")
  /\ UNCHANGED nonPipeVars

PNext ==
  \/ \E x \in Pipelines : PAdd(x)
  \/ \E x \in Pipelines : PInsert(x)
  \/ \E x \in Pipelines : PRemove(x)
  \/ \E x \in Pipelines : PClear(x)
  \/ PipelineClone

SpecP == Init /\ [][PNext]_vars

(***************************************************************************)
(* Properties of the Pipeline objects                                      *)
(***************************************************************************)
\* this.stages of a Pipeline
StagesOf(x) == heap[ref[x]]

Edited == lastOp.kind \in {"add", "insert", "remove", "clear"}

\* C24: right after p2 = p.clone() both Pipelines list the same stages in
\* the same order and p's list is as it was; and once p2 exists, an add,
\* insert, remove or clear on one Pipeline leaves the stage list of the other,
\* and with it its getInfo, as they were.
C24_CloneIndependent ==
  [][ /\ lastOp'.kind = "clone" =>
           /\ StagesOf("p2")' = StagesOf("p")'
           /\ StagesOf("p")' = StagesOf("p")
      /\ (Edited' /\ ref["p2"] # 0) =>
           \A x \in Pipelines :
             lastOp'.target = x =>
               /\ StagesOf(Other(x))' = StagesOf(Other(x))
               /\ PipelineGetInfo(StagesOf(Other(x)))' = PipelineGetInfo(StagesOf(Other(x))) ]_vars

C24_Witness ==
  /\ ref["p2"] # 0
  /\ lastOp.kind = "remove"
  /\ lastOp.target = "p2"
  /\ lastOp.name = "compress"
  /\ lastOp.before = 3
  /\ Len(StagesOf("p")) = 3
  /\ StagesOf("p")[1].name = "compress"
  /\ Len(StagesOf("p2")) = 1

\* the stages of a list that do not bear a name, in their order
RECURSIVE Others(_, _)
Others(st, name) ==
  IF st = <<>> THEN <<>>
  ELSE IF Head(st).name = name THEN Others(Tail(st), name)
  ELSE <<Head(st)>> \o Others(Tail(st), name)

Occurrences(st, name) == Cardinality({ k \in 1..Len(st) : st[k].name = name })

\* what execute does with a stage list, from a valid input and new processors
Executions(st) == PipelineRun(st, 1, Val(BatchFile), {}, NoModel)

\* getInfo counts and lists the stages as execute runs them: an execution
\* that succeeds has applied stageCount processors, the k-th being the one
\* getInfo lists k-th, and there is one when every stage name is dispatched
InfoMatchesExecution(st) ==
  LET info == PipelineGetInfo(st)
  IN  /\ info.stageCount = Len(st)
      /\ \A r \in Executions(st) :
           r.out.ok =>
             /\ Len(r.out.val.ops) = info.stageCount
             /\ \A k \in 1..info.stageCount : r.out.val.ops[k].proc = info.stages[k].name
      /\ (\A k \in 1..Len(st) : StageKnown(info.stages[k].name)) =>
           \E r \in Executions(st) : r.out.ok

\* C25: remove(name) leaves no stage of that name, whatever their number, and
\* keeps every other stage in its order; and after every add, insert, remove,
\* clear and clone, getInfo().stageCount is the number of stages execute
\* runs and getInfo().stages lists them in the order execute runs them.
C25_RemoveAndInfo ==
  /\ [][ lastOp'.kind = "remove" =>
           \A x \in Pipelines :
             lastOp'.target = x =>
               /\ StagesOf(x)' = Others(StagesOf(x), lastOp'.name)
               /\ Len(StagesOf(x)') = Len(StagesOf(x)) - Occurrences(StagesOf(x), lastOp'.name)
               /\ \A k \in 1..Len(StagesOf(x)') : StagesOf(x)'[k].name # lastOp'.name
    ]_vars
  /\ [](\A x \in Pipelines : ref[x] # 0 => InfoMatchesExecution(StagesOf(x)))

C25_Witness ==
  /\ lastOp.kind = "remove"
  /\ lastOp.target = "p"
  /\ lastOp.name = "removeBackground"
  /\ lastOp.before = 3
  /\ Len(StagesOf("p")) = 1
  /\ PipelineGetInfo(StagesOf("p")).stageCount = 1
  /\ PipelineGetInfo(StagesOf("p")).stages[1].name = "compress"

(***************************************************************************)
(* Properties of enhance(input, outputPath, config)                        *)
(***************************************************************************)
\* the operations config configures, in the order upscale, removeBackground,
\* compress
ConfiguredOperations ==
  SelectSeq(<<"upscale", "removeBackground", "compress">>,
            LAMBDA operation :
              \E k \in 1..Len(call.config) :
                call.config[k].key = operation /\ call.config[k].truthy)

Completed(operations) ==
  [k \in 1..Len(operations) |-> [operation |-> operations[k], status |-> "completed"]]

\* C26: in enhance(input, outputPath, config) on a valid input the configured
\* operations are started in the order upscale, removeBackground, compress
\* whatever the order of the keys of config, one after the other has
\* returned, the first on the input and each later one on the output of the
\* one before; on success steps lists exactly the configured operations in
\* that order, each 'completed', stepCount is its length, buffer is the last
\* output and outputPath, when given, was written once with it; when an
\* operation throws the call rejects and outputPath is not written.
C26_FixedOrder ==
  (call.api = "enhanceMeta" /\ InputValid) =>
    /\ Len(Invokes) <= Len(ConfiguredOperations)
    /\ Len(Invokes) - Len(Returns) \in {0, 1}
    /\ pc \in {"steps", "done"} => Len(Invokes) = Len(Returns)
    /\ \A k \in 1..Len(Invokes) :
         /\ Invokes[k].arg.name = ConfiguredOperations[k]
         /\ Invokes[k].arg.input = (IF k = 1 THEN Val(call.input) ELSE Returns[k - 1].arg.val)
    /\ \A a, b \in 1..Len(log) :
         (a < b /\ log[a].ev = "invoke" /\ log[b].ev = "invoke") =>
           \E c \in (a + 1)..(b - 1) :
             log[c].ev = "return" /\ log[c].arg.stage = log[a].arg.stage
    /\ pc = "done" =>
         /\ ret.kind = "value"
         /\ ret.val.steps = Completed(ConfiguredOperations)
         /\ ret.val.stepCount = Len(ConfiguredOperations)
         /\ ret.val.buffer = LastOutput
         /\ Writes = (IF call.output = <<>> THEN <<>>
                      ELSE <<Ev("writeFile", [path |-> call.output[1], data |-> LastOutput])>>)
    /\ pc = "failed" => (ret.kind = "error" /\ Writes = <<>>)

C26_Witness ==
  /\ call.api = "enhanceMeta"
  /\ Len(call.config) = 3
  /\ call.config[1].key = "compress"
  /\ call.config[2].key = "removeBackground"
  /\ call.config[3].key = "upscale"
  /\ call.output = <<"out.webp">>
  /\ pc = "done"
  /\ ret.val.stepCount = 3
  /\ ret.val.steps[1].operation = "upscale"
  /\ ret.val.steps[3].operation = "compress"
  /\ Len(Writes) = 1

\* an operation threw after an earlier one completed, with outputPath given
C26_RejectedReached ==
  /\ call.api = "enhanceMeta"
  /\ call.output = <<"out.webp">>
  /\ pc = "failed"
  /\ Len(Returns) = 1
  /\ Len(Invokes) = 2
  /\ Writes = <<>>

(***************************************************************************)
(* Properties of the mask at its corner and at its threshold               *)
(***************************************************************************)
\* C27: for every width and height the top-left pixel (0,0) lies at distance
\* sqrt(2), beyond 1.4, and its mask alpha is 0; and the result of the
\* background removal of a 1x1 image has its one pixel fully transparent.
C27_TopLeftTransparent ==
  MaskBuilt =>
    /\ DistanceSquared(image.width, image.height, 0, 0)
         = 2 * (image.width * image.height) * (image.width * image.height)
    /\ 100 * DistanceSquared(image.width, image.height, 0, 0)
         > 196 * (image.width * image.height) * (image.width * image.height)
    /\ AlphaAt(0, 0) = 0
    /\ (mpc = "done" /\ image = [width |-> 1, height |-> 1]) => mret.val.alpha = <<0>>

C27_Witness ==
  /\ mpc = "done"
  /\ image = [width |-> 1, height |-> 1]
  /\ maskBuffer = <<255, 255, 255, 0>>
  /\ mret.val.alpha = <<0>>

\* distance <= 0.6, on the squares
WithinCore(p) ==
  25 * DistanceSquared(image.width, image.height, p[1], p[2])
    <= 9 * (image.width * image.height) * (image.width * image.height)

\* C29: a pixel of the mask has alpha 255 exactly when its distance from the
\* center is at most 0.6, every pixel farther than that has an alpha of at
\* most 204, and no pixel has an alpha in 205..254.
C29_ThresholdJump ==
  MaskBuilt =>
    \A p \in Pixels :
      /\ (AlphaAt(p[1], p[2]) = 255) <=> WithinCore(p)
      /\ ~WithinCore(p) => AlphaAt(p[1], p[2]) \in 0..204
      /\ AlphaAt(p[1], p[2]) \notin 205..254

C29_Witness ==
  /\ MaskBuilt
  /\ image = [width |-> 3, height |-> 4]
  /\ ~WithinCore(<<1, 1>>)
  /\ AlphaAt(1, 1) = 204
  /\ WithinCore(<<1, 2>>)
  /\ AlphaAt(1, 2) = 255

(***************************************************************************)
(* Properties of the quality estimate of the lossy formats                 *)
(***************************************************************************)
Statistics == [channels |-> qIn.channels, entropy10 |-> qIn.entropy10]

\* baseQuality as it reaches the clamp
Unclamped == FormatAdjusted(qIn, BaseBeforeFormat(qIn))

\* C28: with computable statistics and a target that is not png or oxipng,
\* getOptimalQuality returns a value in 75..95: an image with a mean standard
\* deviation above 25 and an entropy above 6 has a complexity of at least 0.3
\* and is not taken for a simple one, the value that reaches the clamp is at
\* least 92 - 12 - 5 = 75, and the result is that value or, above 95, 95: the
\* lower limit of 50 never decides it.
C28_LossyRange ==
  (Estimated /\ Computable /\ ~IsPngName(qIn.format)) =>
    /\ qOut.est.kind = "return"
    /\ qOut.est.value \in 75..95
    /\ (Sum(qIn.channels) > 25 * Len(qIn.channels) /\ qIn.entropy10 > 60) =>
         /\ 10 * calculateComplexity(Statistics) >= 3 * ComplexityDen(Statistics)
         /\ BaseBeforeFormat(qIn) >= 85 - 5
    /\ Unclamped >= 92 - 12 - 5
    /\ qOut.est.value = (IF Unclamped > 95 THEN 95 ELSE Unclamped)

C28_Witness ==
  /\ Estimated
  /\ Computable
  /\ qIn.format = <<S_jpg>>
  /\ qIn.channels = <<0>>
  /\ qIn.entropy10 = 0
  /\ LowComplexity(Statistics)
  /\ qOut.est.value = 75

\* a photographic image of the least complexity the inputs have
C28_PhotographicReached ==
  /\ Estimated
  /\ Computable
  /\ qIn.format = <<S_jpg>>
  /\ qIn.channels = <<26>>
  /\ qIn.entropy10 = 61
  /\ qIn.size > LargeFile
  /\ qOut.est.value = 80

(***************************************************************************)
(* Properties of a command over several files                              *)
(***************************************************************************)
\* the writes that went to a path, oldest first
WritesTo(path) == { k \in 1..Len(written) : written[k].path = path }

\* what the file at a path holds: the data of the last write to it
OnDisk(path) == written[CHOOSE k \in WritesTo(path) : \A j \in WritesTo(path) : j <= k].data

FailedAtFile == cpc = "exited" /\ exitCode = <<1>> /\ ck >= 1

\* the files are taken in the resolved order, one write follows each
\* processed file, and nothing is processed or written after a failure
InOrderUntilFailure ==
  /\ cpc \in {"loop", "write"} => Len(written) = ck - 1
  /\ \A k \in 1..Len(written) :
       /\ written[k].file = files[k]
       /\ written[k].data \in { r.out.val : r \in { q \in ZenCall(cmd, files[k], {}, NoModel) :
                                                    q.out.ok } }
  /\ FailedAtFile =>
       /\ ck <= Len(files)
       /\ Len(written) = ck - 1

C30_Overwritten ==
  /\ FailedAtFile
  /\ Len(files) = 3
  /\ Len(written) = 2
  /\ written[1].path = written[2].path
  /\ written[1].data # written[2].data

====
